---- MODULE Spec2Model ----
(***************************************************************************)
(* Verification model of the dashboard_extrato repository (Python /        *)
(* Streamlit): login wall, database manager with retry, repository reads,  *)
(* analytics engine, KPI manager and the SQL query builder.                *)
(*                                                                         *)
(* Conventions.  An Optional[T] value is a sequence: None is <<>> and a    *)
(* present value x is <<x>>, so that Python's "if user:" is  user # <<>>.  *)
(* A Python list is a sequence.  Dates are day numbers (integers).         *)
(* Each subsystem has its own variables and its own specification; the     *)
(* variables of the other subsystems stay at their idle values.            *)
(***************************************************************************)
EXTENDS Integers, Sequences, FiniteSets, TLC

VARIABLES
    \* ---- AuthService.authenticate called on its own (core/auth_service.py)
    auth_pc,            \* "ready" before the call, "done" after it
    auth_username,      \* argument username
    auth_password,      \* argument password
    auth_connected,     \* repository.is_connected() at the time of the call
    auth_result,        \* Optional[User] returned
    \* ---- DatabaseManager and DataRepository (data/database.py, data/repository.py)
    db_cls,             \* class attributes DatabaseManager._pool, _engine, _connection_available
    db_inst,            \* attributes of the DatabaseManager instance in use: pool, engine, available
    db_pc,              \* "none": no instance yet; "init": inside the retry loop; "ready": constructed
    db_attempt,         \* loop variable attempt of _init_connections
    db_retry_delay,     \* local retry_delay of _init_connections
    db_sleeps,          \* the time.sleep() calls of the construction in progress, in order
    db_tries,           \* connection attempts made by the construction in progress
    db_checked_out,     \* connections taken from the pool and not returned
    db_op,              \* the last query operation: its name, inputs and outcome
    db_history,         \* history: the instance that created the pool; was close() called
    \* ---- QueryBuilder called on its own (data/queries.py)
    qb_pc,              \* "ready" before the call, "done" after it, "executed" once run
    qb_method,          \* the build method called
    qb_filters,         \* argument filters
    qb_out,             \* the (query, params) returned for qb_filters
    qb_filters2,        \* a second FilterParams of the same shape
    qb_out2,            \* the (query, params) returned for qb_filters2
    qb_named,           \* the text execute_query hands to the driver for qb_out
    \* ---- AnalyticsEngine.analyze_* (core/analytics_engine.py)
    an_pc,              \* "ready" before the call, "done" after it
    an_kind,            \* which analysis is called: liquidity, concentration, balance_evolution
    an_df,              \* the frame the repository returns for the analysis
    an_daily,           \* df_daily of analyze_liquidity
    an_step_error,      \* the step of the try block that raises, or "none"
    an_result,          \* the outcome of the call
    \* ---- KPIManager._calculate_concentration_metrics (ui/kpis.py)
    kpi_pc,             \* "ready" before the call, "done" after it
    kpi_data,           \* the extract frame
    kpi_out,            \* the dict returned
    \* ---- one browser session of the Dashboard (ui/dashboard.py)
    ss_pc,              \* "idle" between runs, else the step of the dashboard run
    ss_today,           \* date.today()
    ss_state,           \* st.session_state.dashboard_state
    ss_keys,            \* the other session keys: the auth keys present, selected_funds
    ss_rendered,        \* the dashboard components the current or last run rendered
    ss_filters,         \* the FilterParams the last run built, if any
    ss_auth_result,     \* the user the last run's authentication returned, if any
    ss_ms_attempt,      \* the Graph answer and AUTHORIZED_DOMAINS the last run handled, if any
    \* ---- EntraConfig and MicrosoftEntraAuth at construction (config/entra_config.py)
    ec_pc,              \* "env" before construction, "built" after it
    ec_env,             \* the environment variables read by EntraConfig.__init__
    ec_oauth2_error,    \* whether the OAuth2Component constructor raises
    ec_cfg,             \* the EntraConfig instance: enabled and the fields of get_config_dict()
    ec_oauth2,          \* MicrosoftEntraAuth.oauth2: None or the component
    \* ---- SimpleAuthenticator in one browser session (utils/auth_utils.py)
    sa_names,           \* the usernames typed in this session
    sa_secrets,         \* st.secrets['authentication']: empty, or the configured users
    sa_now,             \* time.time()
    sa_attempts,        \* st.session_state.auth_attempts: per username None or <<[count, last_attempt]>>
    sa_session,         \* st.session_state: authenticated, user_data, session_start
    sa_last,            \* the last authenticate call: its arguments, its result, whether the rate limit rejected it
    sa_streak,          \* history: per username, the failed calls in a row and the time of the last one
    \* ---- KPIManager.calculate_financial_kpis and its session cache (ui/kpis.py)
    kc_table,           \* the rows of DW_STAGING.vw_extrato, as indexes into ViewRows
    kc_session,         \* the kpis_ entries of st.session_state
    kc_refreshed,       \* Atualizar Dados pressed and no call made since
    kc_last             \* the last call: filters, cache hit, value returned

authVars == <<auth_pc, auth_username, auth_password, auth_connected, auth_result>>
dbVars == <<db_cls, db_inst, db_pc, db_attempt, db_retry_delay, db_sleeps, db_tries,
            db_checked_out, db_op, db_history>>

qbVars == <<qb_pc, qb_method, qb_filters, qb_out, qb_filters2, qb_out2, qb_named>>

anVars == <<an_pc, an_kind, an_df, an_daily, an_step_error, an_result>>

kpiVars == <<kpi_pc, kpi_data, kpi_out>>

ssVars == <<ss_pc, ss_today, ss_state, ss_keys, ss_rendered, ss_filters, ss_auth_result,
           ss_ms_attempt>>

ecVars == <<ec_pc, ec_env, ec_oauth2_error, ec_cfg, ec_oauth2>>

saVars == <<sa_names, sa_secrets, sa_now, sa_attempts, sa_session, sa_last, sa_streak>>

kcVars == <<kc_table, kc_session, kc_refreshed, kc_last>>

vars == <<authVars, dbVars, qbVars, anVars, kpiVars, ssVars, ecVars, saVars, kcVars>>

\* The variables of the other subsystems, which a subsystem's actions leave alone.
notAuthVars == <<dbVars, qbVars, anVars, kpiVars, ssVars, ecVars, saVars, kcVars>>
notDbVars == <<authVars, qbVars, anVars, kpiVars, ssVars, ecVars, saVars, kcVars>>
notQbVars == <<authVars, dbVars, anVars, kpiVars, ssVars, ecVars, saVars, kcVars>>
notAnVars == <<authVars, dbVars, qbVars, kpiVars, ssVars, ecVars, saVars, kcVars>>
notKpiVars == <<authVars, dbVars, qbVars, anVars, ssVars, ecVars, saVars, kcVars>>
notSsVars == <<authVars, dbVars, qbVars, anVars, kpiVars, ecVars, saVars, kcVars>>
notEcVars == <<authVars, dbVars, qbVars, anVars, kpiVars, ssVars, saVars, kcVars>>
notSaVars == <<authVars, dbVars, qbVars, anVars, kpiVars, ssVars, ecVars, kcVars>>
notKcVars == <<authVars, dbVars, qbVars, anVars, kpiVars, ssVars, ecVars, saVars>>

None == <<>>
Some(x) == <<x>>

(***************************************************************************)
(* core/models.py: User                                                    *)
(***************************************************************************)
User(id, username, email, full_name, profile, provider) ==
    [id |-> id, username |-> username, email |-> email, full_name |-> full_name,
     profile |-> profile, active |-> TRUE, provider |-> provider]

(***************************************************************************)
(* core/auth_service.py: AuthService._authenticate_demo_user               *)
(***************************************************************************)
demo_users ==
    [admin   |-> [password |-> "admin123",
                  user |-> User(1, "admin", "admin@demo.com", "Administrador Demo", "admin", "demo")],
     gestor  |-> [password |-> "gestor123",
                  user |-> User(2, "gestor", "gestor@demo.com", "Gestor Demo", "gestor", "demo")],
     usuario |-> [password |-> "usuario123",
                  user |-> User(3, "usuario", "usuario@demo.com", "Usuario Demo", "viewer", "demo")]]

\* A plausible slip: the password comparison is dropped.
authenticate_demo_user_NoPassword(username, password) ==
    IF username \in DOMAIN demo_users
    THEN Some(demo_users[username].user)
    ELSE None

authenticate_demo_user(username, password) ==
    IF username \in DOMAIN demo_users /\ demo_users[username].password = password
    THEN Some(demo_users[username].user)
    ELSE None

(***************************************************************************)
(* core/auth_service.py: AuthService.authenticate.  Both branches of the   *)
(* is_connected() test end in the demo lookup (the database branch is a    *)
(* TODO); nothing inside the try block raises for string arguments.        *)
(***************************************************************************)
authenticate(username, password, connected) ==
    IF ~connected
    THEN authenticate_demo_user(username, password)
    ELSE authenticate_demo_user(username, password)

\* Login attempts tried on the form: the demo names and passwords, the empty
\* string, an unknown name, a name differing in case, a password of another user.
Usernames == {"admin", "gestor", "usuario", "", "root", "Admin"}
Passwords == {"admin123", "gestor123", "usuario123", "", "wrong", "ADMIN123"}

AuthIdle ==
    /\ auth_pc = "idle"
    /\ auth_username = ""
    /\ auth_password = ""
    /\ auth_connected = FALSE
    /\ auth_result = None

AuthInit ==
    /\ auth_pc = "ready"
    /\ auth_username \in Usernames
    /\ auth_password \in Passwords
    /\ auth_connected \in BOOLEAN
    /\ auth_result = None

AuthCall ==
    /\ auth_pc = "ready"
    /\ auth_pc' = "done"
    /\ auth_result' = authenticate(auth_username, auth_password, auth_connected)
    /\ UNCHANGED <<auth_username, auth_password, auth_connected, notAuthVars>>

AuthNext == AuthCall

(***************************************************************************)
(* data/database.py: DatabaseManager                                       *)
(*                                                                         *)
(* A pool or engine object is named by the attempt that created it (1..3). *)
(* A class attribute is an Optional (None or Some(n)); an instance         *)
(* attribute is Unset when it was never assigned and <<v>> when it holds v.*)
(***************************************************************************)
max_retries == 3
initial_retry_delay == 2
MaxRows == 1

Unset == <<>>

\* Where one attempt of the loop body can raise: the pool constructor, the
\* engine constructor, pool.get_connection(), test_conn.ping(); or nowhere.
AttemptOutcomes == {"pool_error", "engine_error", "get_connection_error", "ping_error", "ok"}

\* self._connection_available: the instance attribute, else the class attribute.
connection_available(inst, cls) ==
    IF inst.available = Unset THEN cls.available ELSE inst.available[1]

is_connected(inst, cls) ==
    connection_available(inst, cls) /\ inst.pool # Unset /\ inst.pool # <<None>>

\* is_connected raises AttributeError iff it reads a self.pool never assigned.
is_connected_raises(inst, cls) ==
    connection_available(inst, cls) /\ inst.pool = Unset

\* __init__ -> _init_connections, lines 24-31: share the class pool, or enter the loop.
\* A slip: the shortcut is taken when the connection is available.
pool_exists_Available(cls) == cls.available

\* `if DatabaseManager._pool is not None`, line 24.
pool_exists(cls) == cls.pool # None

DbConstruct ==
    /\ db_pc \in {"none", "ready"}
    /\ db_sleeps' = <<>>
    /\ db_tries' = 0
    /\ IF pool_exists(db_cls)
       THEN /\ db_inst' = [pool |-> <<db_cls.pool>>, engine |-> <<db_cls.engine>>,
                           available |-> <<db_cls.available>>]
            /\ db_pc' = "ready"
            /\ UNCHANGED <<db_attempt, db_retry_delay>>
       ELSE /\ db_inst' = [pool |-> Unset, engine |-> Unset, available |-> Unset]
            /\ db_pc' = "init"
            /\ db_attempt' = 0
            /\ db_retry_delay' = initial_retry_delay
    /\ UNCHANGED <<db_cls, db_checked_out, db_op, db_history, notDbVars>>

\* The class and instance attributes after the try block of one attempt that
\* ended as `outcome`; `n` names the objects this attempt creates.
AttemptCls(cls, outcome, n) ==
    CASE outcome = "pool_error"   -> cls
      [] outcome = "engine_error" -> [cls EXCEPT !.pool = Some(n)]
      [] outcome \in {"get_connection_error", "ping_error"}
                                  -> [cls EXCEPT !.pool = Some(n), !.engine = Some(n)]
      [] outcome = "ok"           -> [pool |-> Some(n), engine |-> Some(n), available |-> TRUE]

AttemptInst(inst, outcome, n) ==
    CASE outcome = "pool_error"   -> inst
      [] outcome = "engine_error" -> [inst EXCEPT !.pool = <<Some(n)>>]
      [] outcome \in {"get_connection_error", "ping_error"}
                                  -> [inst EXCEPT !.pool = <<Some(n)>>, !.engine = <<Some(n)>>]
      [] outcome = "ok"           -> [pool |-> <<Some(n)>>, engine |-> <<Some(n)>>,
                                      available |-> <<TRUE>>]

\* The wait after a failed attempt (lines 86-88): only when it is not the last.
SleepsAfterFailure_Always(attempt) == TRUE

SleepsAfterFailure(attempt) == attempt < max_retries - 1

\* One iteration of `for attempt in range(max_retries)`, lines 33-92.
DbAttempt ==
    /\ db_pc = "init"
    /\ db_attempt < max_retries
    /\ \E outcome \in AttemptOutcomes :
        LET n == db_attempt + 1
            cls1 == AttemptCls(db_cls, outcome, n)
            inst1 == AttemptInst(db_inst, outcome, n)
        IN  /\ db_tries' = db_tries + 1
            \* test_conn.close() is reached only when ping() did not raise
            /\ db_checked_out' = IF outcome = "ping_error" THEN db_checked_out + 1
                                 ELSE db_checked_out
            /\ IF outcome = "ok"
               THEN /\ db_cls' = cls1
                    /\ db_inst' = inst1
                    /\ db_pc' = "ready"
                    /\ UNCHANGED <<db_attempt, db_retry_delay, db_sleeps>>
               ELSE IF SleepsAfterFailure(db_attempt)
               THEN /\ db_cls' = cls1
                    /\ db_inst' = inst1
                    /\ db_sleeps' = Append(db_sleeps, db_retry_delay)
                    /\ db_retry_delay' = db_retry_delay * 2
                    /\ db_attempt' = db_attempt + 1
                    /\ db_pc' = IF db_attempt + 1 < max_retries THEN "init" ELSE "ready"
               ELSE /\ db_cls' = [cls1 EXCEPT !.available = FALSE]
                    /\ db_inst' = [inst1 EXCEPT !.available = <<FALSE>>]
                    /\ db_attempt' = db_attempt + 1
                    /\ db_pc' = IF db_attempt + 1 < max_retries THEN "init" ELSE "ready"
                    /\ UNCHANGED <<db_retry_delay, db_sleeps>>
    /\ db_history' = IF db_pc' = "ready" /\ db_cls'.pool # None
                     THEN [db_history EXCEPT !.creator = Some(db_inst')]
                     ELSE db_history
    /\ UNCHANGED <<db_op, notDbVars>>

\* DatabaseManager.close, lines 148-157.  `if self.engine` raises
\* AttributeError when the attribute was never assigned; the except clause
\* swallows it and the class flag is then left as it was.
DbClose ==
    /\ db_pc = "ready"
    /\ db_cls' = IF db_inst.engine = Unset THEN db_cls
                 ELSE IF db_inst.engine # <<None>>
                      THEN [db_cls EXCEPT !.engine = None, !.available = FALSE]
                      ELSE [db_cls EXCEPT !.available = FALSE]
    /\ db_history' = [db_history EXCEPT !.closed = TRUE]
    /\ UNCHANGED <<db_inst, db_pc, db_attempt, db_retry_delay, db_sleeps, db_tries,
                   db_checked_out, db_op, notDbVars>>

\* What the database does with one statement: engine.connect() raises, the
\* statement raises, (for an update) commit raises, or `rows` rows come back.
DbOutcomes ==
    [fail : {"none", "connect_error", "query_error", "commit_error"}, rows : 0..MaxRows]

\* The result of a call: did it raise, the number of rows of the DataFrame (or
\* elements of the list, or the rowcount) returned, and whether
\* engine.connect() was called.
Result(raised, rows, touched) == [raised |-> raised, rows |-> rows, touched |-> touched]

\* A slip: the except clause is missing, so a failure propagates.
execute_query_NoExcept(inst, cls, env) ==
    IF ~is_connected(inst, cls)
    THEN Result(FALSE, 0, FALSE)
    ELSE IF env.fail \in {"connect_error", "query_error"}
         THEN Result(TRUE, 0, TRUE)
         ELSE Result(FALSE, env.rows, TRUE)

\* DatabaseManager.execute_query, lines 98-121.
execute_query(inst, cls, env) ==
    IF ~is_connected(inst, cls)
    THEN Result(FALSE, 0, FALSE)
    ELSE IF env.fail \in {"connect_error", "query_error"}
         THEN Result(FALSE, 0, TRUE)
         ELSE Result(FALSE, env.rows, TRUE)

\* DatabaseManager.execute_update, lines 123-146.
execute_update(inst, cls, env) ==
    IF ~is_connected(inst, cls)
    THEN Result(FALSE, 0, FALSE)
    ELSE IF env.fail # "none"
         THEN Result(FALSE, 0, TRUE)
         ELSE Result(FALSE, env.rows, TRUE)

(***************************************************************************)
(* utils/mysql_connector_utils.py: the context manager                     *)
(* MySQLConnector.get_connection around one with-block.  `fail` says where *)
(* an exception is raised: in pool.get_connection(), in ping(), in the     *)
(* body of the with-block, or nowhere; `alive` is what                     *)
(* connection.is_connected() answers in the finally clause.                *)
(***************************************************************************)
MaxCheckedOut == 1

ConnectionOutcomes ==
    [fail : {"none", "get_connection_error", "ping_error", "body_error"}, alive : BOOLEAN]

\* A slip: the finally clause closes whatever was acquired.
get_connection_AlwaysCloses(env) ==
    LET acquired == env.fail # "get_connection_error"
    IN  [raised |-> env.fail # "none", acquired |-> acquired, closed |-> acquired]

\* Lines 99-114: every exception is re-raised (line 111); close() is called
\* only `if connection and connection.is_connected()` (lines 113-114).
get_connection(env) ==
    LET acquired == env.fail # "get_connection_error"
    IN  [raised |-> env.fail # "none", acquired |-> acquired,
         closed |-> acquired /\ env.alive]

\* The connections one with-block leaves checked out.
LeftCheckedOut(res) == IF res.acquired /\ ~res.closed THEN 1 ELSE 0

DbGetConnection ==
    /\ db_pc = "ready"
    /\ db_checked_out < MaxCheckedOut
    /\ \E env \in ConnectionOutcomes :
        LET res == get_connection(env)
        IN  /\ db_checked_out' = db_checked_out + LeftCheckedOut(res)
            /\ db_op' = [name |-> "get_connection", connected |-> env.alive,
                         fail |-> env.fail, avail |-> 0, post_error |-> FALSE,
                         raised |-> res.raised, rows |-> LeftCheckedOut(res),
                         touched |-> res.acquired]
    /\ UNCHANGED <<db_cls, db_inst, db_pc, db_attempt, db_retry_delay, db_sleeps, db_tries,
                   db_history, notDbVars>>

(***************************************************************************)
(* data/repository.py: DataRepository reads.  `post_error` says that the   *)
(* pandas post-processing of a non-empty frame raises (a column of an      *)
(* unexpected type); every read wraps its body in try/except.              *)
(***************************************************************************)
RepoReads == {"get_extract_data", "get_liquidity_metrics", "get_daily_metrics",
              "get_concentration_analysis", "get_available_funds",
              "get_available_custodians"}

\* The reads that transform a non-empty frame before returning it.
PostProcessed == {"get_extract_data", "get_daily_metrics", "get_available_funds",
                  "get_available_custodians"}

repository_read(name, inst, cls, env, post_error) ==
    LET df == execute_query(inst, cls, env)
    IN  IF df.raised
        THEN Result(FALSE, 0, df.touched)
        ELSE IF df.rows > 0 /\ name \in PostProcessed /\ post_error
             THEN Result(FALSE, 0, df.touched)
             ELSE df

\* The record of the last operation: the call, what is_connected() was, the
\* database's behaviour, and the result.
Op(name, connected, env, post_error, res) ==
    [name |-> name, connected |-> connected, fail |-> env.fail, avail |-> env.rows,
     post_error |-> post_error, raised |-> res.raised, rows |-> res.rows,
     touched |-> res.touched]

NoOp == Op("none", FALSE, [fail |-> "none", rows |-> 0], FALSE, Result(FALSE, 0, FALSE))

DbQueryVarsUnchanged ==
    UNCHANGED <<db_cls, db_inst, db_pc, db_attempt, db_retry_delay, db_sleeps, db_tries,
                db_checked_out, db_history, notDbVars>>

DbExecuteQuery ==
    /\ db_pc = "ready"
    /\ \E env \in DbOutcomes :
        db_op' = Op("execute_query", is_connected(db_inst, db_cls), env, FALSE,
                    execute_query(db_inst, db_cls, env))
    /\ DbQueryVarsUnchanged

DbExecuteUpdate ==
    /\ db_pc = "ready"
    /\ \E env \in DbOutcomes :
        db_op' = Op("execute_update", is_connected(db_inst, db_cls), env, FALSE,
                    execute_update(db_inst, db_cls, env))
    /\ DbQueryVarsUnchanged

DbRepositoryRead ==
    /\ db_pc = "ready"
    /\ \E name \in RepoReads, env \in DbOutcomes, post_error \in BOOLEAN :
        db_op' = Op(name, is_connected(db_inst, db_cls), env, post_error,
                    repository_read(name, db_inst, db_cls, env, post_error))
    /\ DbQueryVarsUnchanged

\* Program start: the class attributes of lines 14-16, no instance yet.
DbInit ==
    /\ db_cls = [pool |-> None, engine |-> None, available |-> FALSE]
    /\ db_inst = [pool |-> Unset, engine |-> Unset, available |-> Unset]
    /\ db_pc = "none"
    /\ db_attempt = 0
    /\ db_retry_delay = initial_retry_delay
    /\ db_sleeps = <<>>
    /\ db_tries = 0
    /\ db_checked_out = 0
    /\ db_op = NoOp
    /\ db_history = [creator |-> None, closed |-> FALSE]

DbNext ==
    \/ DbConstruct
    \/ DbAttempt
    \/ DbClose
    \/ DbExecuteQuery
    \/ DbExecuteUpdate
    \/ DbRepositoryRead
    \/ DbGetConnection

(***************************************************************************)
(* data/models.py: FilterParams; data/queries.py: QueryBuilder             *)
(*                                                                         *)
(* A query text is the sequence of its pieces: every occurrence of the     *)
(* two characters %s is a piece of its own, the text between occurrences   *)
(* is one piece (abbreviated here, the filter conditions spelled out).     *)
(* The values handed to the builder (dates, names) are strings.            *)
(***************************************************************************)
MaxList == 2

FundNames == {"FUNDO A", "FUNDO B"}
CustodianNames == {"BRADESCO", "ITAU"}
DateRanges == {<<"2024-01-01", "2024-01-01">>, <<"2024-01-01", "2024-02-15">>,
               <<"2024-02-15", "2024-02-15">>}
Limits == {None, Some(0), Some(10000)}

\* Optional[List[str]]: None, or a list (the empty list included).
OptLists(S) == {None} \cup {Some(l) : l \in UNION {[1..k -> S] : k \in 0..MaxList}}

FilterParams(start_date, end_date, funds, custodians, limit) ==
    [start_date |-> start_date, end_date |-> end_date, funds |-> funds,
     custodians |-> custodians, limit |-> limit]

FilterParamsSet ==
    {FilterParams(d[1], d[2], f, c, l) :
        d \in DateRanges, f \in OptLists(FundNames), c \in OptLists(CustodianNames),
        l \in Limits}

\* Python truth of an Optional[List]: neither None nor empty.
Truthy_NotNone(opt) == opt # None

Truthy(opt) == opt # None /\ opt[1] # <<>>

\* Python truth of Optional[int].
TruthyInt(opt) == opt # None /\ opt[1] # 0

\* ','.join(['%s'] * n)
RECURSIVE JoinPlaceholders(_)
JoinPlaceholders(n) ==
    IF n = 0 THEN <<>>
    ELSE IF n = 1 THEN <<"%s">>
    ELSE <<"%s", ",">> \o JoinPlaceholders(n - 1)

\* A slip that would defeat parameterization: the values quoted into the text.
RECURSIVE placeholders_Interpolated(_)
placeholders_Interpolated(values) ==
    IF values = <<>> THEN <<>>
    ELSE IF Len(values) = 1 THEN <<"'", values[1], "'">>
    ELSE <<"'", values[1], "'", ",">> \o placeholders_Interpolated(Tail(values))

\* fund_placeholders / custodian_placeholders of a list of values.
placeholders(values) == JoinPlaceholders(Len(values))

\* The list `conditions` (lines 26-36 and the same lines of every builder).
conditions(filters) ==
    (IF Truthy(filters.funds)
     THEN << <<"nmfundo IN (">> \o placeholders(filters.funds[1]) \o <<")">> >>
     ELSE <<>>)
    \o
    (IF Truthy(filters.custodians)
     THEN << <<"fonte IN (">> \o placeholders(filters.custodians[1]) \o <<")">> >>
     ELSE <<>>)

\* " AND ".join(conds)
RECURSIVE JoinAnd(_)
JoinAnd(conds) ==
    IF conds = <<>> THEN <<>>
    ELSE IF Len(conds) = 1 THEN conds[1]
    ELSE conds[1] \o <<" AND ">> \o JoinAnd(Tail(conds))

\* The list `params` turned into a tuple.
params(filters) ==
    <<filters.start_date, filters.end_date>>
    \o (IF Truthy(filters.funds) THEN filters.funds[1] ELSE <<>>)
    \o (IF Truthy(filters.custodians) THEN filters.custodians[1] ELSE <<>>)

\* base_query += " AND " + " AND ".join(conditions), when there are conditions.
WithConditions(base, filters) ==
    IF conditions(filters) # <<>>
    THEN base \o <<" AND ">> \o JoinAnd(conditions(filters))
    ELSE base

Built(query, filters) == [query |-> query, params |-> params(filters)]

build_extract_query(filters) ==
    LET base == <<"SELECT id_origem, fonte, ..., lancamento FROM DW_STAGING.vw_extrato WHERE DATE(dt_lancamento) BETWEEN ",
                  "%s", " AND ", "%s", "\n">>
        q == WithConditions(base, filters) \o <<" ORDER BY dt_lancamento DESC, nmfundo\n">>
    IN  Built(IF TruthyInt(filters.limit)
              THEN q \o <<" LIMIT ", ToString(filters.limit[1])>>
              ELSE q,
              filters)

build_liquidity_query(filters) ==
    LET base == <<"SELECT nmfundo, fonte, SUM(COALESCE(entrada, 0)) as total_entries, ... FROM DW_STAGING.vw_extrato WHERE DATE(dt_lancamento) BETWEEN ",
                  "%s", " AND ", "%s", "\n">>
    IN  Built(WithConditions(base, filters)
              \o <<" GROUP BY nmfundo, fonte HAVING SUM(ABS(COALESCE(entrada, 0)) + ABS(COALESCE(saida, 0))) > 0 ORDER BY total_entries + total_exits DESC\n">>,
              filters)

build_daily_metrics_query(filters) ==
    LET base == <<"SELECT DATE(dt_lancamento) as date, nmfundo, fonte, ..., MIN(COALESCE(saldo, 0)) as min_balance FROM DW_STAGING.vw_extrato WHERE DATE(dt_lancamento) BETWEEN ",
                  "%s", " AND ", "%s", "\n">>
    IN  Built(WithConditions(base, filters)
              \o <<" GROUP BY DATE(dt_lancamento), nmfundo, fonte ORDER BY date DESC, nmfundo\n">>,
              filters)

build_concentration_query(filters) ==
    LET base == <<"WITH fund_totals AS ( SELECT nmfundo, fonte, ... FROM DW_STAGING.vw_extrato WHERE DATE(dt_lancamento) BETWEEN ",
                  "%s", " AND ", "%s", "\n">>
    IN  Built(WithConditions(base, filters)
              \o <<" GROUP BY nmfundo, fonte ), overall_total AS (...) SELECT f.nmfundo, ..., concentration_level FROM fund_totals f CROSS JOIN overall_total o WHERE f.total_volume > 0 ORDER BY concentration_pct DESC\n">>,
              filters)

build_balance_evolution_query(filters) ==
    LET base == <<"SELECT DATE(dt_lancamento) as date, nmfundo, fonte, ..., LAG(COALESCE(saldo, 0)) OVER (PARTITION BY nmfundo ORDER BY dt_lancamento) as previous_balance FROM DW_STAGING.vw_extrato WHERE DATE(dt_lancamento) BETWEEN ",
                  "%s", " AND ", "%s", "\n">>
    IN  Built(WithConditions(base, filters) \o <<" ORDER BY dt_lancamento, nmfundo\n">>,
              filters)

\* The text of build_operation_summary_query up to the quote that opens the
\* pattern of LIKE '%saque%'.
LikePatternOpening ==
    "SELECT CASE WHEN LOWER(lancamento) LIKE '%taxa%' ... OR LOWER(lancamento) LIKE '"

\* The CASE expression holds LIKE '%saque%', whose first two characters are %s.
build_operation_summary_query(filters) ==
    LET base == <<LikePatternOpening,
                  "%s",
                  "aque%' THEN 'Resgate' ... END as categoria, ... FROM DW_STAGING.vw_extrato WHERE DATE(dt_lancamento) BETWEEN ",
                  "%s", " AND ", "%s", "\n">>
    IN  Built(WithConditions(base, filters)
              \o <<" GROUP BY categoria HAVING total_operations > 0 ORDER BY ABS(net_amount) DESC\n">>,
              filters)

(***************************************************************************)
(* data/repository.py: DataRepository._apply_filters_to_query, applied to  *)
(* a rule template that holds both markers (the templates themselves come  *)
(* from rule files outside the source tree).                               *)
(***************************************************************************)
RuleTemplate ==
    <<"SELECT nmfundo, SUM(entrada) FROM DW_STAGING.vw_extrato WHERE DATE(dt_lancamento) BETWEEN ",
      "%s", " AND ", "%s", " ", "{fund_filter}", " ", "{custodian_filter}", " GROUP BY nmfundo">>

\* str.replace(marker, replacement): every occurrence of the marker.
RECURSIVE ReplaceAll(_, _, _)
ReplaceAll(text, marker, replacement) ==
    IF text = <<>> THEN <<>>
    ELSE (IF Head(text) = marker THEN replacement ELSE <<Head(text)>>)
         \o ReplaceAll(Tail(text), marker, replacement)

apply_filters_to_query(query_template, filters) ==
    LET fund_filter ==
            IF Truthy(filters.funds)
            THEN <<"AND nmfundo IN (">> \o placeholders(filters.funds[1]) \o <<")">>
            ELSE <<>>
        custodian_filter ==
            IF Truthy(filters.custodians)
            THEN <<"AND fonte IN (">> \o placeholders(filters.custodians[1]) \o <<")">>
            ELSE <<>>
    IN  Built(ReplaceAll(ReplaceAll(query_template, "{fund_filter}", fund_filter),
                         "{custodian_filter}", custodian_filter),
              filters)

BuildMethods == {"build_extract_query", "build_liquidity_query", "build_daily_metrics_query",
                 "build_concentration_query", "build_balance_evolution_query",
                 "build_operation_summary_query"}
QueryMethods == BuildMethods \cup {"apply_filters_to_query"}

build(method, filters) ==
    CASE method = "build_extract_query"           -> build_extract_query(filters)
      [] method = "build_liquidity_query"         -> build_liquidity_query(filters)
      [] method = "build_daily_metrics_query"     -> build_daily_metrics_query(filters)
      [] method = "build_concentration_query"     -> build_concentration_query(filters)
      [] method = "build_balance_evolution_query" -> build_balance_evolution_query(filters)
      [] method = "build_operation_summary_query" -> build_operation_summary_query(filters)
      [] method = "apply_filters_to_query"        -> apply_filters_to_query(RuleTemplate, filters)

\* A second FilterParams of the same shape as `filters`: other dates, and the
\* names replaced through rf and rc (any maps of names to names); the list
\* lengths and the limit are kept.
MapOpt(r, opt) == IF opt = None THEN None ELSE Some([i \in 1..Len(opt[1]) |-> r[opt[1][i]]])

SameShapeAs(filters, d, rf, rc) ==
    FilterParams(d[1], d[2], MapOpt(rf, filters.funds), MapOpt(rc, filters.custodians),
                 filters.limit)

NotBuilt == [query |-> <<>>, params |-> <<>>]

QbIdle ==
    /\ qb_pc = "idle"
    /\ qb_method = "none"
    /\ qb_filters = FilterParams("", "", None, None, None)
    /\ qb_filters2 = FilterParams("", "", None, None, None)
    /\ qb_out = NotBuilt
    /\ qb_out2 = NotBuilt
    /\ qb_named = <<>>

QbInit ==
    /\ qb_pc = "ready"
    /\ qb_method \in QueryMethods
    /\ qb_filters \in FilterParamsSet
    /\ qb_filters2 = qb_filters
    /\ qb_out = NotBuilt
    /\ qb_out2 = NotBuilt
    /\ qb_named = <<>>

\* The method is called with qb_filters and with a second FilterParams of the
\* same shape.
QbBuild ==
    /\ qb_pc = "ready"
    /\ qb_pc' = "done"
    /\ \E d \in DateRanges, rf \in [FundNames -> FundNames],
          rc \in [CustodianNames -> CustodianNames] :
          /\ qb_filters2' = SameShapeAs(qb_filters, d, rf, rc)
          /\ qb_out2' = build(qb_method, SameShapeAs(qb_filters, d, rf, rc))
    /\ qb_out' = build(qb_method, qb_filters)
    /\ UNCHANGED <<qb_method, qb_filters, qb_named, notQbVars>>

\* A slip: every occurrence of the marker replaced by one call.
replace_first_All(text, marker, replacement) ==
    [i \in 1..Len(text) |-> IF text[i] = marker THEN replacement ELSE text[i]]

\* str.replace(marker, replacement, 1): the first occurrence of the marker.
RECURSIVE replace_first(_, _, _)
replace_first(text, marker, replacement) ==
    IF text = <<>> THEN <<>>
    ELSE IF Head(text) = marker THEN <<replacement>> \o Tail(text)
    ELSE <<Head(text)>> \o replace_first(Tail(text), marker, replacement)

\* f':param_{i}'
param_name(i) == ":param_" \o ToString(i)

\* The loop of data/database.py lines 111-112, after i0 of its rounds:
\* query_named = query_named.replace('%s', f':param_{i}', 1) for i0 <= i < n.
RECURSIVE rewrite_from(_, _, _)
rewrite_from(text, i0, n) ==
    IF i0 >= n THEN text
    ELSE rewrite_from(replace_first(text, "%s", param_name(i0)), i0 + 1, n)

\* DatabaseManager.execute_query, data/database.py lines 106-117, on a
\* connected manager: the text given to pd.read_sql.
query_named(query, parameters) ==
    IF parameters # <<>> THEN rewrite_from(query, 0, Len(parameters)) ELSE query

\* The repository runs the built query: DataRepository passes the pair to
\* execute_query (data/repository.py lines 21-22).
QbExecute ==
    /\ qb_pc = "done"
    /\ qb_pc' = "executed"
    /\ qb_named' = query_named(qb_out.query, qb_out.params)
    /\ UNCHANGED <<qb_method, qb_filters, qb_out, qb_filters2, qb_out2, notQbVars>>

QbNext == QbBuild \/ QbExecute

(***************************************************************************)
(* core/models.py: Metric, Alert, AnalysisResult;                          *)
(* core/analytics_engine.py: AnalyticsEngine                               *)
(*                                                                         *)
(* A DataFrame is the sequence of its rows.  Amounts are integers.  A      *)
(* quotient is kept exact as a pair [num, den]; Python's float('inf') is   *)
(* the pair with den = 0.  A dict is the sequence of its (key, value)      *)
(* pairs in insertion order.                                               *)
(***************************************************************************)
MaxGroups == 3

\* AnalyticsConfig defaults, in tenths: 0.8 and 1.5; and the literal 0.5.
liquidity_ratio_min_x10 == 8
liquidity_ratio_max_x10 == 15
critical_ratio_x10 == 5

Quotient(num, den) == [num |-> num, den |-> den]
Inf == Quotient(1, 0)
Abs(x) == IF x < 0 THEN -x ELSE x

\* q < t/10 and q > t/10 for a quotient with den >= 0 (inf when den = 0).
LessThanTenths(q, t) == q.den # 0 /\ q.num * 10 < t * q.den
GreaterThanTenths(q, t) == q.den = 0 \/ q.num * 10 > t * q.den

\* Equality of two quotients as numbers.
SameQuotient(p, q) ==
    IF p.den = 0 \/ q.den = 0 THEN p.den = q.den ELSE p.num * q.den = q.num * p.den

Metric(name, value, status, severity, metadata) ==
    [name |-> name, value |-> value, status |-> status, severity |-> severity,
     metadata |-> metadata]

Alert(type, severity, fund, value) ==
    [type |-> type, severity |-> severity, fund |-> fund, value |-> value]

AnalysisResult(analysis_type, success, metrics, alerts, data, summary, message) ==
    [analysis_type |-> analysis_type, success |-> success, metrics |-> metrics,
     alerts |-> alerts, data |-> data, summary |-> summary, message |-> message]

\* AnalysisResult(type, success=False, message=...): the other fields default to None.
Failure(analysis_type, message) ==
    AnalysisResult(analysis_type, FALSE, None, None, None, None, Some(message))

\* dict[key] = value: replaces the value of a key already present (which
\* keeps its place), else appends.
DictSet(d, key, value) ==
    IF \E i \in 1..Len(d) : d[i][1] = key
    THEN [i \in 1..Len(d) |-> IF d[i][1] = key THEN <<key, value>> ELSE d[i]]
    ELSE Append(d, <<key, value>>)

DictKeys(d) == {d[i][1] : i \in 1..Len(d)}
DictGet(d, key) == d[CHOOSE i \in 1..Len(d) : d[i][1] = key][2]

\* df[df['nmfundo'] == fund][field].sum()
RECURSIVE SumField(_, _, _)
SumField(df, fund, field) ==
    IF df = <<>> THEN 0
    ELSE (IF Head(df).nmfundo = fund THEN Head(df)[field] ELSE 0)
         + SumField(Tail(df), fund, field)

\* Lines 115-126: the ratio of one row and its classification.
liquidity_ratio(row) ==
    IF row.total_exits # 0
    THEN Quotient(row.total_entries, Abs(row.total_exits))
    ELSE Inf

liquidity_status(ratio) ==
    IF LessThanTenths(ratio, liquidity_ratio_min_x10) THEN "Baixa"
    ELSE IF GreaterThanTenths(ratio, liquidity_ratio_max_x10) THEN "Alta"
    ELSE "Normal"

\* A slip: the critical level forgotten.
liquidity_severity_NeverCritical(ratio) ==
    IF LessThanTenths(ratio, liquidity_ratio_min_x10) THEN "warning"
    ELSE IF GreaterThanTenths(ratio, liquidity_ratio_max_x10) THEN "warning"
    ELSE "info"

liquidity_severity(ratio) ==
    IF LessThanTenths(ratio, liquidity_ratio_min_x10)
    THEN (IF LessThanTenths(ratio, critical_ratio_x10) THEN "critical" ELSE "warning")
    ELSE IF GreaterThanTenths(ratio, liquidity_ratio_max_x10) THEN "warning"
    ELSE "info"

\* _calculate_liquidity_metrics, lines 107-142: one pass over the rows,
\* metrics[fund_name] assigned for each row.
RECURSIVE calculate_liquidity_metrics_from(_, _)
calculate_liquidity_metrics_from(df, metrics) ==
    IF df = <<>> THEN metrics
    ELSE LET row == Head(df)
             ratio == liquidity_ratio(row)
         IN  calculate_liquidity_metrics_from(
                 Tail(df),
                 DictSet(metrics, row.nmfundo,
                         Metric("Liquidez", ratio, liquidity_status(ratio),
                                liquidity_severity(ratio),
                                [total_entries |-> row.total_entries,
                                 total_exits |-> row.total_exits])))

calculate_liquidity_metrics(df) == calculate_liquidity_metrics_from(df, <<>>)

\* _generate_liquidity_alerts, lines 144-159.
RECURSIVE generate_liquidity_alerts(_)
generate_liquidity_alerts(metrics) ==
    IF metrics = <<>> THEN <<>>
    ELSE (IF Head(metrics)[2].severity \in {"warning", "critical"}
          THEN <<Alert("liquidity", Head(metrics)[2].severity, Head(metrics)[1],
                       Head(metrics)[2].value)>>
          ELSE <<>>)
         \o generate_liquidity_alerts(Tail(metrics))

RECURSIVE SumColumn(_, _)
SumColumn(df, field) ==
    IF df = <<>> THEN 0 ELSE Head(df)[field] + SumColumn(Tail(df), field)

\* _prepare_liquidity_charts, lines 270-279.
prepare_liquidity_charts(df_liquidity, df_daily) ==
    [liquidity_metrics |-> df_liquidity,
     daily_trends |-> df_daily,
     summary_stats |->
        [total_funds |-> Len(df_liquidity),
         avg_liquidity_ratio |->
            IF SumColumn(df_liquidity, "total_exits") # 0
            THEN Quotient(SumColumn(df_liquidity, "total_entries"),
                          Abs(SumColumn(df_liquidity, "total_exits")))
            ELSE Quotient(0, 1)]]

CountSeverity(metrics, severity) ==
    Cardinality({i \in 1..Len(metrics) : metrics[i][2].severity = severity})

\* _create_liquidity_summary, lines 301-307: the three numbers of the sentence.
create_liquidity_summary(metrics, alerts) ==
    [total_funds |-> Len(metrics),
     critical_funds |-> CountSeverity(metrics, "critical"),
     warning_funds |-> CountSeverity(metrics, "warning")]

\* The outcome of a call of analyze_*: whether an exception left the method,
\* and the AnalysisResult returned.  Every statement of analyze_* is inside
\* try/except Exception, so every path of the model ends in a return.
Returned(result) == [raised |-> FALSE, result |-> result]

\* The steps inside the try block in which an exception can surface (a column
\* of mixed numeric types, a pandas error); "none" when no step raises.
AnalysisSteps == {"none", "evolution", "metrics", "alerts", "charts", "summary"}

\* A slip: the empty-frame test is missing.
IsEmpty_Never(df) == FALSE

\* DataFrame.empty
IsEmpty(df) == df = <<>>

\* analyze_liquidity, lines 22-52.
analyze_liquidity(df_liquidity, df_daily, step_error) ==
    IF IsEmpty(df_liquidity)
    THEN Returned(Failure("liquidity", "Sem dados para analise"))
    ELSE IF step_error # "none"
    THEN Returned(Failure("liquidity", step_error))
    ELSE LET metrics == calculate_liquidity_metrics(df_liquidity)
             alerts == generate_liquidity_alerts(metrics)
         IN  Returned(
                AnalysisResult("liquidity", TRUE, Some(metrics), Some(alerts),
                               Some(prepare_liquidity_charts(df_liquidity, df_daily)),
                               Some(create_liquidity_summary(metrics, alerts)), None))

(***************************************************************************)
(* Concentration analysis.  A percentage is kept in hundredths of a        *)
(* percent, which is what ROUND(..., 2) of the query leaves.               *)
(***************************************************************************)
concentration_threshold_x100 == 3000
high_concentration_x100 == 2000
critical_concentration_x100 == 3000

\* n / d rounded to the nearest integer, halves away from zero (n, d > 0).
RoundDiv(n, d) == (2 * n + d) \div (2 * d)

RECURSIVE MaxColumn(_, _)
MaxColumn(df, field) ==
    IF df = <<>> THEN 0
    ELSE LET rest == MaxColumn(Tail(df), field)
         IN  IF Head(df)[field] > rest THEN Head(df)[field] ELSE rest

\* df[df[field] > threshold]
RowsAbove(df, field, threshold) ==
    SelectSeq(df, LAMBDA row : row[field] > threshold)

\* Lines 182-193: metrics[fund_name] assigned for each row above 20 %.
RECURSIVE concentration_fund_metrics(_, _)
concentration_fund_metrics(rows, metrics) ==
    IF rows = <<>> THEN metrics
    ELSE LET row == Head(rows)
         IN  concentration_fund_metrics(
                 Tail(rows),
                 DictSet(metrics, row.nmfundo,
                         Metric("Concentracao", row.concentration_pct,
                                row.concentration_level,
                                IF row.concentration_pct > critical_concentration_x100
                                THEN "critical" ELSE "warning",
                                [total_volume |-> row.total_volume])))

\* _calculate_concentration_metrics, lines 161-195.
calculate_concentration_metrics(df) ==
    LET max_concentration == IF df # <<>> THEN MaxColumn(df, "concentration_pct") ELSE 0
        high == max_concentration > concentration_threshold_x100
        overall ==
            Metric("Concentracao Geral", max_concentration,
                   IF high THEN "Alto" ELSE "Normal",
                   IF high THEN "warning" ELSE "info",
                   [high_concentration_funds |->
                        Len(RowsAbove(df, "concentration_pct", concentration_threshold_x100)),
                    total_funds |-> Len(df)])
    IN  concentration_fund_metrics(
            RowsAbove(df, "concentration_pct", high_concentration_x100),
            <<<<"overall", overall>>>>)

\* A slip: the overall metric not skipped.
RECURSIVE generate_concentration_alerts_WithOverall(_)
generate_concentration_alerts_WithOverall(metrics) ==
    IF metrics = <<>> THEN <<>>
    ELSE (IF Head(metrics)[2].severity \in {"warning", "critical"}
          THEN <<Alert("concentration", Head(metrics)[2].severity, Head(metrics)[1],
                       Head(metrics)[2].value)>>
          ELSE <<>>)
         \o generate_concentration_alerts_WithOverall(Tail(metrics))

\* _generate_concentration_alerts, lines 197-212.
RECURSIVE generate_concentration_alerts(_)
generate_concentration_alerts(metrics) ==
    IF metrics = <<>> THEN <<>>
    ELSE (IF /\ Head(metrics)[1] # "overall"
             /\ Head(metrics)[2].severity \in {"warning", "critical"}
          THEN <<Alert("concentration", Head(metrics)[2].severity, Head(metrics)[1],
                       Head(metrics)[2].value)>>
          ELSE <<>>)
         \o generate_concentration_alerts(Tail(metrics))

\* _prepare_concentration_charts, lines 281-289.
prepare_concentration_charts(df) ==
    [concentration_data |-> df,
     summary_stats |->
        [max_concentration |-> MaxColumn(df, "concentration_pct"),
         funds_above_threshold |->
            Len(RowsAbove(df, "concentration_pct", concentration_threshold_x100))]]

\* _create_concentration_summary, lines 309-314: the numbers of the sentence.
create_concentration_summary(metrics, alerts) ==
    IF "overall" \in DictKeys(metrics)
    THEN [max_conc |-> DictGet(metrics, "overall").value, alerts |-> Len(alerts)]
    ELSE [max_conc |-> 0, alerts |-> 0]

\* analyze_concentration, lines 54-77.
analyze_concentration(df_concentration, step_error) ==
    IF IsEmpty(df_concentration)
    THEN Returned(Failure("concentration", "Sem dados para analise"))
    ELSE IF step_error # "none"
    THEN Returned(Failure("concentration", step_error))
    ELSE LET metrics == calculate_concentration_metrics(df_concentration)
             alerts == generate_concentration_alerts(metrics)
         IN  Returned(
                AnalysisResult("concentration", TRUE, Some(metrics), Some(alerts),
                               Some(prepare_concentration_charts(df_concentration)),
                               Some(create_concentration_summary(metrics, alerts)), None))

(***************************************************************************)
(* Balance evolution.  A percentage change is an exact quotient with a     *)
(* positive denominator.                                                   *)
(***************************************************************************)
evolution_alert_pct == 20

QAdd(p, q) == Quotient(p.num * q.den + q.num * p.den, p.den * q.den)

\* The order of fund names under string comparison.
FundRank(fund) == IF fund = "FUNDO A" THEN 1 ELSE 2

\* Row a is ordered no later than row b under (nmfundo, date).
FundDateLeq(a, b) ==
    \/ FundRank(a.nmfundo) < FundRank(b.nmfundo)
    \/ a.nmfundo = b.nmfundo /\ a.date <= b.date

\* sort_values(['nmfundo', 'date']): a stable sort, rows with equal keys keep
\* their order.
RECURSIVE InsertByFundDate(_, _)
InsertByFundDate(row, sorted) ==
    IF sorted = <<>> THEN <<row>>
    ELSE IF FundDateLeq(Head(sorted), row)
         THEN <<Head(sorted)>> \o InsertByFundDate(row, Tail(sorted))
         ELSE <<row>> \o sorted

RECURSIVE sort_values(_)
sort_values(df) ==
    IF df = <<>> THEN <<>>
    ELSE InsertByFundDate(df[Len(df)], sort_values(SubSeq(df, 1, Len(df) - 1)))

\* A slip: the running sum taken over the whole frame.
CumulativeFlow_AllFunds(df, i) ==
    SumField(SubSeq(df, 1, i), df[i].nmfundo, "daily_net_flow")
    + SumField(SubSeq(df, 1, i), IF df[i].nmfundo = "FUNDO A" THEN "FUNDO B" ELSE "FUNDO A",
               "daily_net_flow")

\* groupby('nmfundo')['daily_net_flow'].cumsum() at row i
CumulativeFlow(df, i) ==
    SumField(SubSeq(df, 1, i), df[i].nmfundo, "daily_net_flow")

\* The row before row i in the group of its fund, 0 if there is none.
PreviousInGroup(df, i) ==
    LET before == {j \in 1..(i - 1) : df[j].nmfundo = df[i].nmfundo}
    IN  IF before = {} THEN 0 ELSE CHOOSE j \in before : \A k \in before : k <= j

\* groupby('nmfundo')['cumulative_flow'].pct_change() * 100, with inf, -inf
\* and NaN replaced by 0 (lines 223-224).
PctChange(df, i) ==
    LET j == PreviousInGroup(df, i)
    IN  IF j = 0 THEN Quotient(0, 1)
        ELSE LET prev == CumulativeFlow(df, j)
                 cur == CumulativeFlow(df, i)
             IN  IF prev = 0 THEN Quotient(0, 1)
                 ELSE IF prev > 0 THEN Quotient((cur - prev) * 100, prev)
                 ELSE Quotient((prev - cur) * 100, -prev)

\* _calculate_balance_evolution, lines 214-226.
calculate_balance_evolution(df) ==
    LET sorted == sort_values(df)
    IN  [i \in 1..Len(sorted) |->
            [date |-> sorted[i].date, nmfundo |-> sorted[i].nmfundo,
             fonte |-> sorted[i].fonte, daily_net_flow |-> sorted[i].daily_net_flow,
             cumulative_flow |-> CumulativeFlow(sorted, i),
             pct_change |-> PctChange(sorted, i)]]

\* df['nmfundo'].unique(): the values in order of first appearance.
RECURSIVE Unique(_, _)
Unique(df, field) ==
    IF df = <<>> THEN <<>>
    ELSE LET rest == Unique(SubSeq(df, 1, Len(df) - 1), field)
             last == df[Len(df)][field]
         IN  IF \E i \in 1..Len(rest) : rest[i] = last THEN rest ELSE Append(rest, last)

RECURSIVE SumPctChange(_)
SumPctChange(rows) ==
    IF rows = <<>> THEN Quotient(0, 1)
    ELSE QAdd(Head(rows).pct_change, SumPctChange(Tail(rows)))

\* |q| > t for a quotient with a positive denominator
AbsGreaterThan(q, t) == Abs(q.num) > t * q.den

\* _calculate_evolution_metrics, lines 228-251.
RECURSIVE evolution_fund_metrics(_, _, _)
evolution_fund_metrics(df, funds, metrics) ==
    IF funds = <<>> THEN metrics
    ELSE LET fund == Head(funds)
             fund_data == SelectSeq(df, LAMBDA row : row.nmfundo = fund)
             total_variation == SumPctChange(fund_data)
         IN  evolution_fund_metrics(
                 df, Tail(funds),
                 IF Len(fund_data) > 1
                 THEN DictSet(metrics, fund,
                              Metric("Evolucao", total_variation,
                                     IF total_variation.num > 0 THEN "Positiva" ELSE "Negativa",
                                     IF AbsGreaterThan(total_variation, evolution_alert_pct)
                                     THEN "warning" ELSE "info",
                                     [periods |-> Len(fund_data)]))
                 ELSE metrics)

calculate_evolution_metrics(df) == evolution_fund_metrics(df, Unique(df, "nmfundo"), <<>>)

\* _generate_evolution_alerts, lines 253-268.
RECURSIVE generate_evolution_alerts(_)
generate_evolution_alerts(metrics) ==
    IF metrics = <<>> THEN <<>>
    ELSE (IF AbsGreaterThan(Head(metrics)[2].value, evolution_alert_pct)
          THEN <<Alert("evolution", "warning", Head(metrics)[1], Head(metrics)[2].value)>>
          ELSE <<>>)
         \o generate_evolution_alerts(Tail(metrics))

\* _prepare_evolution_charts, lines 291-299.
prepare_evolution_charts(df) ==
    [evolution_data |-> df,
     summary_stats |->
        [total_periods |-> Len(Unique(df, "date")),
         funds_analyzed |-> Len(Unique(df, "nmfundo"))]]

\* _create_evolution_summary, lines 316-318: the numbers of the sentence.
create_evolution_summary(metrics, alerts) ==
    [funds |-> Len(metrics), alerts |-> Len(alerts)]

\* analyze_balance_evolution, lines 79-105.
analyze_balance_evolution(df_daily, step_error) ==
    IF IsEmpty(df_daily)
    THEN Returned(Failure("balance_evolution", "Sem dados para analise"))
    ELSE IF step_error # "none"
    THEN Returned(Failure("balance_evolution", step_error))
    ELSE LET df_evolution == calculate_balance_evolution(df_daily)
             metrics == calculate_evolution_metrics(df_evolution)
             alerts == generate_evolution_alerts(metrics)
         IN  Returned(
                AnalysisResult("balance_evolution", TRUE, Some(metrics), Some(alerts),
                               Some(prepare_evolution_charts(df_evolution)),
                               Some(create_evolution_summary(metrics, alerts)), None))

(***************************************************************************)
(* The frames the repository hands to the engine, as the queries of        *)
(* data/queries.py shape them.                                             *)
(***************************************************************************)
\* The orders of the elements of a finite set S.
Orders(S) ==
    {s \in [1..Cardinality(S) -> S] : \A i, j \in 1..Cardinality(S) : i # j => s[i] # s[j]}

GroupSets == {G \in SUBSET (FundNames \X CustodianNames) : Cardinality(G) <= MaxGroups}

\* build_liquidity_query: one row per (nmfundo, fonte) group,
\* ORDER BY total_entries + total_exits DESC (ties in any order).
LiquidityAmounts == {10, 30, 100} \X {0, 50, -100}

LiquidityRow(g, amounts) ==
    [nmfundo |-> g[1], fonte |-> g[2], total_entries |-> amounts[1],
     total_exits |-> amounts[2]]

LiquidityFrames ==
    UNION {
        UNION {
            {[i \in 1..Cardinality(G) |-> LiquidityRow(s[i], v[s[i]])] :
                s \in {o \in Orders(G) :
                        \A i, j \in 1..Cardinality(G) :
                            i < j => v[o[i]][1] + v[o[i]][2] >= v[o[j]][1] + v[o[j]][2]}}
            : v \in [G -> LiquidityAmounts]}
        : G \in GroupSets}

\* build_concentration_query: one row per (nmfundo, fonte) group of positive
\* volume, its share of the grand total in percent rounded to two decimals,
\* the level from the share before rounding, ORDER BY concentration_pct DESC.
\* Group volumes; 30001 of 100000 is a share of 30.001 %, which rounds to 30.00.
Volumes == {30001, 69999, 100000}

RECURSIVE SumOver(_, _)
SumOver(f, S) ==
    IF S = {} THEN 0
    ELSE LET x == CHOOSE y \in S : TRUE IN f[x] + SumOver(f, S \ {x})

ConcentrationRow(g, volume, grand_total) ==
    [nmfundo |-> g[1], fonte |-> g[2], total_volume |-> volume,
     concentration_pct |-> RoundDiv(volume * 10000, grand_total),
     concentration_level |->
        IF volume * 100 > 30 * grand_total THEN "Alto"
        ELSE IF volume * 100 > 20 * grand_total THEN "Medio"
        ELSE "Baixo"]

ConcentrationFrames ==
    UNION {
        UNION {
            {s \in {[i \in 1..Cardinality(G) |->
                        ConcentrationRow(o[i], v[o[i]], SumOver(v, G))] : o \in Orders(G)} :
                \A i, j \in 1..Len(s) :
                    i < j => s[i].concentration_pct >= s[j].concentration_pct}
            : v \in [G -> Volumes]}
        : G \in GroupSets}

\* build_daily_metrics_query and get_daily_metrics: one row per (date, nmfundo,
\* fonte) group, sorted by (date, nmfundo) ascending; the custodians of one
\* fund on one day in any order.
MaxDaily == 3
Dates == 1..2
DailyFlows == {-10, 10, 30}
DailyRow(date, fund, fonte, flow) ==
    [date |-> date, nmfundo |-> fund, fonte |-> fonte, daily_net_flow |-> flow]

DailyFrames ==
    UNION {
        UNION {
            {[i \in 1..Cardinality(K) |-> DailyRow(o[i][1], o[i][2], o[i][3], v[o[i]])] :
                o \in {s \in Orders(K) :
                        \A i, j \in 1..Cardinality(K) : i < j =>
                                \/ s[i][1] < s[j][1]
                                \/ /\ s[i][1] = s[j][1]
                                   /\ FundRank(s[i][2]) <= FundRank(s[j][2])}}
            : v \in [K -> DailyFlows]}
        : K \in {S \in SUBSET (Dates \X FundNames \X CustodianNames) : Cardinality(S) <= MaxDaily}}

NotAnalyzed == Returned(AnalysisResult("none", FALSE, None, None, None, None, None))

AnIdle ==
    /\ an_pc = "idle"
    /\ an_kind = "none"
    /\ an_df = <<>>
    /\ an_daily = <<>>
    /\ an_step_error = "none"
    /\ an_result = NotAnalyzed

AnInit ==
    /\ an_pc = "ready"
    /\ an_result = NotAnalyzed
    /\ \/ /\ an_kind = "liquidity"
          /\ an_df \in LiquidityFrames
          /\ an_daily \in {<<>>, <<DailyRow(1, "FUNDO A", "ITAU", 10)>>}
          /\ an_step_error \in AnalysisSteps \ {"evolution"}
       \/ /\ an_kind = "concentration"
          /\ an_df \in ConcentrationFrames
          /\ an_daily = <<>>
          /\ an_step_error \in AnalysisSteps \ {"evolution"}
       \/ /\ an_kind = "balance_evolution"
          /\ an_df \in DailyFrames
          /\ an_daily = <<>>
          /\ an_step_error \in AnalysisSteps

AnUnchanged == UNCHANGED <<an_kind, an_df, an_daily, an_step_error, notAnVars>>

AnAnalyzeLiquidity ==
    /\ an_pc = "ready"
    /\ an_kind = "liquidity"
    /\ an_pc' = "done"
    /\ an_result' = analyze_liquidity(an_df, an_daily, an_step_error)
    /\ AnUnchanged

AnAnalyzeConcentration ==
    /\ an_pc = "ready"
    /\ an_kind = "concentration"
    /\ an_pc' = "done"
    /\ an_result' = analyze_concentration(an_df, an_step_error)
    /\ AnUnchanged

AnAnalyzeBalanceEvolution ==
    /\ an_pc = "ready"
    /\ an_kind = "balance_evolution"
    /\ an_pc' = "done"
    /\ an_result' = analyze_balance_evolution(an_df, an_step_error)
    /\ AnUnchanged

AnNext ==
    \/ AnAnalyzeLiquidity
    \/ AnAnalyzeConcentration
    \/ AnAnalyzeBalanceEvolution

(***************************************************************************)
(* ui/kpis.py: KPIManager._calculate_concentration_metrics                 *)
(*                                                                         *)
(* `data` is the extract frame after _process_extract_data: one row per    *)
(* ledger entry, entrada and saida numeric.  The values round(x, 2)        *)
(* returns are kept in hundredths.  The except branch (lines 150-152) is   *)
(* left out: no operation of the body raises on numeric columns.           *)
(***************************************************************************)
MaxEntries == 3

ExtractRow(fund, amounts) == [nmfundo |-> fund, entrada |-> amounts[1], saida |-> amounts[2]]

ExtractFrames ==
    UNION {[1..n -> {ExtractRow(f, a) : f \in FundNames, a \in {0, 1, 2} \X {0, 5}}] : n \in 0..MaxEntries}

\* A slip: the fraction cut off instead of rounded.
Round_Truncated(n, d) == n \div d

\* round(n / d) for n >= 0, d > 0: to the nearest integer, a half to the even
\* neighbour.
Round(n, d) ==
    LET q == n \div d
        r == n % d
    IN  IF 2 * r < d THEN q
        ELSE IF 2 * r > d THEN q + 1
        ELSE IF q % 2 = 0 THEN q ELSE q + 1

\* fund_volumes['total_volume'], lines 122-127, as a function of the fund.
fund_volumes(data) ==
    [fund \in {data[i].nmfundo : i \in 1..Len(data)} |->
        Abs(SumField(data, fund, "entrada")) + Abs(SumField(data, fund, "saida"))]

\* nlargest(n, ...).sum() of the values of f over S
RECURSIVE NLargestSum(_, _, _)
NLargestSum(f, S, n) ==
    IF n = 0 \/ S = {} THEN 0
    ELSE LET top == CHOOSE x \in S : \A y \in S : f[y] <= f[x]
         IN  f[top] + NLargestSum(f, S \ {top}, n - 1)

\* _calculate_concentration_metrics, lines 115-148.  With T the total volume,
\* a percentage is 100 v / T and the index is sum((100 v / T)^2) / 100.
kpi_concentration_metrics(data) ==
    IF data = <<>>
    THEN [concentration_index |-> 0, top_fund_percentage |-> 0]
    ELSE LET volume == fund_volumes(data)
             funds == DOMAIN volume
             total_volume == SumOver(volume, funds)
             squares == [f \in funds |-> volume[f] * volume[f]]
             top_volume == NLargestSum(volume, funds, 1)
         IN  IF total_volume = 0
             THEN [concentration_index |-> 0, top_fund_percentage |-> 0]
             ELSE [concentration_index |->
                        Round(100 * 100 * SumOver(squares, funds), total_volume * total_volume),
                   top_fund_percentage |-> Round(100 * 100 * top_volume, total_volume),
                   top_3_funds_percentage |->
                        Round(100 * 100 * NLargestSum(volume, funds, 3), total_volume),
                   concentration_risk_level |->
                        IF 100 * top_volume > 50 * total_volume THEN "Alto"
                        ELSE IF 100 * top_volume > 30 * total_volume THEN "Medio"
                        ELSE "Baixo"]

KpiIdle ==
    /\ kpi_pc = "idle"
    /\ kpi_data = <<>>
    /\ kpi_out = [concentration_index |-> -1, top_fund_percentage |-> -1]

KpiInit ==
    /\ kpi_pc = "ready"
    /\ kpi_data \in ExtractFrames
    /\ kpi_out = [concentration_index |-> -1, top_fund_percentage |-> -1]

KpiCalculateConcentration ==
    /\ kpi_pc = "ready"
    /\ kpi_pc' = "done"
    /\ kpi_out' = kpi_concentration_metrics(kpi_data)
    /\ UNCHANGED <<kpi_data, notKpiVars>>

KpiNext == KpiCalculateConcentration

(***************************************************************************)
(* ui/dashboard.py: Dashboard; ui/filters.py: FilterManager;               *)
(* core/models.py: DashboardState                                          *)
(*                                                                         *)
(* One browser session.  Every script run builds the services anew and     *)
(* calls Dashboard.run(); st.session_state lasts across runs.  A run of    *)
(* the main dashboard is followed step by step (header, the three sidebar  *)
(* filters, the refresh button, the body); st.rerun() and an exception     *)
(* both end the run.  A date is a day number, today included.              *)
(***************************************************************************)
MaxDays == 2
default_period_days == 45
max_records_display == 10000

DashboardState(authenticated, current_user, selected_funds, selected_custodians, date_range) ==
    [authenticated |-> authenticated, current_user |-> current_user,
     selected_funds |-> selected_funds, selected_custodians |-> selected_custodians,
     date_range |-> date_range]

\* DashboardState(): the defaults, with __post_init__ applied.
NewDashboardState == DashboardState(FALSE, None, <<>>, <<>>, None)

\* The Graph answers for four accounts.  A text field comes with the search
\* terms of _determine_user_profile that occur in its lower-cased text: the
\* code only asks `term in text` of it.
UserInfos ==
    {[id |-> 7, userPrincipalName |-> "ana@corp.com", domain |-> "corp.com",
      displayName |-> "Ana", jobTitle |-> "Analista de Risco",
      email_terms |-> {}, name_terms |-> {}, title_terms |-> {"analista"}],
     [id |-> 8, userPrincipalName |-> "bia@corp.com", domain |-> "corp.com",
      displayName |-> "Bia", jobTitle |-> "",
      email_terms |-> {}, name_terms |-> {}, title_terms |-> {}],
     [id |-> 9, userPrincipalName |-> "carlos@other.com", domain |-> "other.com",
      displayName |-> "Carlos", jobTitle |-> "Gerente",
      email_terms |-> {}, name_terms |-> {}, title_terms |-> {"gerente"}],
     [id |-> 10, userPrincipalName |-> "admin@corp.com", domain |-> "corp.com",
      displayName |-> "TI", jobTitle |-> "Analista",
      email_terms |-> {"admin"}, name_terms |-> {}, title_terms |-> {"analista"}]}

\* MicrosoftEntraAuth._determine_user_profile, core/microsoft_auth.py lines
\* 146-168.
determine_user_profile(user_info) ==
    IF user_info.email_terms \cap {"admin", "administrator"} # {} THEN "admin"
    ELSE IF user_info.name_terms \cap {"admin", "administrator"} # {} THEN "admin"
    ELSE IF user_info.title_terms \cap {"diretor", "director", "gerente", "manager"} # {}
    THEN "gestor"
    ELSE IF user_info.title_terms \cap {"analista", "analyst"} # {} THEN "analista"
    ELSE "viewer"

\* The values of AUTHORIZED_DOMAINS: unset, or a text given as its pieces,
\* the commas among them: '', 'corp.com', 'corp.com, other.com'.
AuthorizedDomainsEnvs ==
    {None, Some(<<>>), Some(<<"corp.com">>), Some(<<"corp.com", ",", " other.com">>)}

\* text.split(','): the pieces between the commas, '' where there is none.
RECURSIVE split_commas(_)
split_commas(text) ==
    IF text = <<>> THEN <<"">>
    ELSE LET rest == split_commas(SubSeq(text, 1, Len(text) - 1))
             last == text[Len(text)]
         IN  IF last = "," THEN Append(rest, "")
             ELSE [rest EXCEPT ![Len(rest)] = last]

\* A slip: the variable is read but never applied.
authorized_domains_Ignored(value) == <<>>

\* EntraConfig.authorized_domains, config/entra_config.py line 17: the pieces
\* of a non-empty AUTHORIZED_DOMAINS as they stand, else the empty list.
authorized_domains(value) ==
    IF value # None /\ value[1] # <<>> THEN split_commas(value[1]) ELSE <<>>

\* MicrosoftEntraAuth.create_user_from_microsoft, core/microsoft_auth.py
\* lines 113-144: None for a domain outside a non-empty authorized_domains.
\* user_info.domain is the text after the @ of the e-mail.
create_user_from_microsoft(user_info, domains) ==
    IF /\ domains # <<>>
       /\ \A i \in 1..Len(domains) : domains[i] # user_info.domain
    THEN None
    ELSE Some(User(user_info.id, user_info.userPrincipalName, user_info.userPrincipalName,
                   user_info.displayName, determine_user_profile(user_info), "microsoft"))

\* What create_user_from_microsoft can return for an accepted account.
MicrosoftUsers ==
    {create_user_from_microsoft(user_info, <<>>)[1] : user_info \in UserInfos}

\* AuthService.authenticate_microsoft, lines 26-52: `outcome` is what the
\* OAuth button, the Graph call and the domain check yield together.
authenticate_microsoft(enabled, outcome) == IF ~enabled THEN None ELSE outcome

\* A slip: the result of the authentication is not tested.
LoginSucceeds_Always(user) == TRUE

\* `if microsoft_user:` / `if user:`
LoginSucceeds(user) == user # None

\* Dashboard.run, lines 36-43: the page a run renders.
run(state) == IF ~state.authenticated THEN "login" ELSE "dashboard"

\* A slip: every profile is let in.
has_permission_Always(user, required_profiles) == TRUE

\* User.has_permission
has_permission(user, required_profiles) == user.profile \in required_profiles

\* period_options, lines 49-55
period_options ==
    [Hoje |-> 0, Ultimos7 |-> 7, Ultimos30 |-> 30, Ultimos45 |-> 45, Personalizado |-> -1]

\* What st.date_input returns for a range: no date, the start alone, or a
\* start and an end in order, none after max_value.
DateInputs(max_date) ==
    LET days == {max_date - default_period_days, max_date - 1, max_date}
    IN  {<<>>} \cup {<<d>> : d \in days}
        \cup {range \in days \X days : range[1] <= range[2]}

\* FilterManager.create_date_filter, lines 42-82.
create_date_filter(today, selected_preset, date_range) ==
    IF selected_preset = "Personalizado"
    THEN IF Len(date_range) = 2 THEN date_range ELSE <<today, today>>
    ELSE <<today - period_options[selected_preset], today>>

\* What st.multiselect can return: the options chosen, each once.
Selections(options) ==
    UNION {{s \in [1..n -> {options[i] : i \in 1..Len(options)}] :
                \A i, j \in 1..n : i # j => s[i] # s[j]} : n \in 0..Len(options)}

\* FilterManager.create_custodian_filter, lines 84-103.
create_custodian_filter(available_custodians, select_all, selection) ==
    IF available_custodians = <<>> THEN <<>>
    ELSE IF select_all THEN available_custodians
    ELSE selection

\* search_term.lower() in fund.lower(), for the terms tried ("a", "x") and
\* the fund names of the model.
SearchMatches(search_term, fund) == search_term = "a" /\ fund = "FUNDO A"

\* filtered_funds, lines 123-128.
filtered_funds(available_funds, search_term) ==
    IF search_term # ""
    THEN SelectSeq(available_funds, LAMBDA fund : SearchMatches(search_term, fund))
    ELSE available_funds

\* A slip: an empty list passed on as a list.
OrNone_Keep(list) == Some(list)

\* `x if x else None`, lines 220-221.
OrNone(list) == IF list # <<>> THEN Some(list) ELSE None

\* Dashboard._get_current_filters, lines 207-223.
get_current_filters(state, today) ==
    LET range == IF state.date_range # None /\ state.date_range[1] # <<>>
                 THEN state.date_range[1]
                 ELSE <<today - default_period_days, today>>
    IN  FilterParams(range[1], range[2], OrNone(state.selected_funds),
                     OrNone(state.selected_custodians), Some(max_records_display))

\* A new session: _init_session_state stores DashboardState().
SsInit ==
    /\ ss_pc = "idle"
    /\ ss_today = 0
    /\ ss_state = NewDashboardState
    /\ ss_keys = [auth |-> {}, selected_funds |-> None]
    /\ ss_rendered = {}
    /\ ss_filters = None
    /\ ss_auth_result = None
    /\ ss_ms_attempt = None

\* A run that renders the login page, lines 45-121.
SsLoginPage ==
    /\ ss_pc = "idle"
    /\ run(ss_state) = "login"
    /\ \E enabled \in BOOLEAN,
          answer \in {None} \cup {Some(user_info) : user_info \in UserInfos},
          env \in AuthorizedDomainsEnvs,
          submitted \in BOOLEAN, username \in Usernames, password \in Passwords,
          connected \in BOOLEAN :
        LET outcome == IF answer = None THEN None
                       ELSE create_user_from_microsoft(answer[1], authorized_domains(env))
            microsoft_user == authenticate_microsoft(enabled, outcome)
            user == authenticate(username, password, connected)
        IN  /\ ss_ms_attempt' = IF enabled /\ answer # None
                                THEN Some([user_info |-> answer[1], env |-> env])
                                ELSE None
            /\ IF enabled /\ LoginSucceeds(microsoft_user)
                THEN /\ ss_state' = [ss_state EXCEPT !.authenticated = TRUE,
                                                     !.current_user = microsoft_user]
                     /\ ss_keys' = [ss_keys EXCEPT !.auth =
                                        IF microsoft_user # None
                                        THEN {"microsoft_user", "microsoft_user_info", "auth_provider"}
                                        ELSE @]
                     /\ ss_auth_result' = microsoft_user
                ELSE IF submitted /\ username # "" /\ password # "" /\ LoginSucceeds(user)
                THEN /\ ss_state' = [ss_state EXCEPT !.authenticated = TRUE,
                                                     !.current_user = user]
                     /\ ss_auth_result' = user
                     /\ UNCHANGED ss_keys
                ELSE /\ ss_auth_result' = None
                     /\ UNCHANGED <<ss_state, ss_keys>>
    /\ ss_rendered' = {}
    /\ ss_filters' = None
    /\ UNCHANGED <<ss_pc, ss_today, notSsVars>>

\* MicrosoftEntraAuth.logout, core/microsoft_auth.py lines 170-184, on the set
\* of authentication keys present in st.session_state (the widget key
\* microsoft_oauth is not among the keys followed here).
microsoft_logout(keys) == keys \ {"microsoft_user"}

\* A slip: nothing is deleted.
clear_all_sessions_Skipped(keys) == keys

\* AuthService._clear_all_sessions, core/auth_service.py lines 88-101.
clear_all_sessions(keys) ==
    keys \ {"microsoft_user", "microsoft_user_info", "auth_provider", "authenticated",
            "current_user"}

\* AuthService.logout, core/auth_service.py lines 68-79.
logout(keys, microsoft_enabled) ==
    clear_all_sessions(IF microsoft_enabled THEN microsoft_logout(keys) ELSE keys)

\* A run that renders the main dashboard begins: _render_dashboard_header,
\* lines 159-181, with the Sair button.
SsHeader ==
    /\ ss_pc = "idle"
    /\ run(ss_state) = "dashboard"
    /\ ss_filters' = None
    /\ ss_auth_result' = None
    /\ ss_ms_attempt' = None
    /\ IF ss_state.current_user = None
       THEN \* user.full_name of None raises
            /\ ss_rendered' = {}
            /\ UNCHANGED <<ss_pc, ss_state, ss_keys>>
       ELSE /\ ss_rendered' = {"header"}
            /\ \E sair \in BOOLEAN, enabled \in BOOLEAN :
                IF sair
                THEN /\ ss_keys' = [ss_keys EXCEPT !.auth = logout(@, enabled)]
                     /\ ss_state' = NewDashboardState
                     /\ UNCHANGED ss_pc
                ELSE /\ ss_pc' = "date"
                     /\ UNCHANGED <<ss_state, ss_keys>>
    /\ UNCHANGED <<ss_today, notSsVars>>

\* _render_sidebar_filters, lines 188-191.
SsDateFilter ==
    /\ ss_pc = "date"
    /\ \E selected_preset \in DOMAIN period_options, date_range \in DateInputs(ss_today) :
        ss_state' = [ss_state EXCEPT !.date_range =
                        Some(create_date_filter(ss_today, selected_preset, date_range))]
    /\ ss_rendered' = ss_rendered \cup {"sidebar"}
    /\ ss_pc' = "custodians"
    /\ UNCHANGED <<ss_today, ss_keys, ss_filters, ss_auth_result, ss_ms_attempt, notSsVars>>

\* _render_sidebar_filters, lines 194-195.
SsCustodianFilter ==
    /\ ss_pc = "custodians"
    /\ \E available \in {<<>>, <<"BRADESCO", "ITAU">>}, select_all \in BOOLEAN :
        \E selection \in Selections(available) :
            ss_state' = [ss_state EXCEPT !.selected_custodians =
                            create_custodian_filter(available, select_all, selection)]
    /\ ss_pc' = "funds"
    /\ UNCHANGED <<ss_today, ss_keys, ss_rendered, ss_filters, ss_auth_result, ss_ms_attempt, notSsVars>>

\* _render_sidebar_filters, lines 198-199, and create_fund_filter, lines
\* 105-157.  `kept` says whether the selected_funds key still holds its value
\* when the multiselect is built.  A default outside the options makes
\* st.multiselect raise.
SsFundFilter ==
    /\ ss_pc = "funds"
    /\ \E available \in {<<>>, <<"FUNDO A", "FUNDO B">>}, search_term \in {"", "a", "x"},
          select_all \in BOOLEAN, clear_selection \in BOOLEAN, kept \in BOOLEAN :
        LET options == filtered_funds(available, search_term)
            default == IF ss_keys.selected_funds # None /\ kept
                       THEN ss_keys.selected_funds[1] ELSE <<>>
        IN  IF available = <<>>
            THEN /\ ss_state' = [ss_state EXCEPT !.selected_funds = <<>>]
                 /\ ss_pc' = "refresh"
                 /\ UNCHANGED ss_keys
            ELSE IF clear_selection
            THEN /\ ss_keys' = [ss_keys EXCEPT !.selected_funds = Some(<<>>)]
                 /\ ss_pc' = "idle"
                 /\ UNCHANGED ss_state
            ELSE IF select_all
            THEN /\ ss_keys' = [ss_keys EXCEPT !.selected_funds = Some(options)]
                 /\ ss_state' = [ss_state EXCEPT !.selected_funds = options]
                 /\ ss_pc' = "refresh"
            ELSE IF \E i \in 1..Len(default) : \A j \in 1..Len(options) : default[i] # options[j]
            THEN /\ ss_pc' = "idle"
                 /\ UNCHANGED <<ss_state, ss_keys>>
            ELSE \E selection \in Selections(options) :
                    /\ ss_keys' = [ss_keys EXCEPT !.selected_funds = Some(selection)]
                    /\ ss_state' = [ss_state EXCEPT !.selected_funds = selection]
                    /\ ss_pc' = "refresh"
    /\ UNCHANGED <<ss_today, ss_rendered, ss_filters, ss_auth_result, ss_ms_attempt, notSsVars>>

\* The button of lines 203-205: a click clears the cache and reruns.
SsRefreshButton ==
    /\ ss_pc = "refresh"
    /\ \E clicked \in BOOLEAN : ss_pc' = IF clicked THEN "idle" ELSE "body"
    /\ UNCHANGED <<ss_today, ss_state, ss_keys, ss_rendered, ss_filters, ss_auth_result, ss_ms_attempt,
                   notSsVars>>

\* _render_main_dashboard, lines 134-157: the KPIs and the three tabs, each
\* with the filters of _get_current_filters.
SsBody ==
    /\ ss_pc = "body"
    /\ ss_filters' = Some(get_current_filters(ss_state, ss_today))
    /\ ss_rendered' = ss_rendered \cup {"kpis", "extrato", "analysis"}
                        \cup (IF has_permission(ss_state.current_user[1], {"admin", "gestor"})
                              THEN {"monitoring"} ELSE {"permission_warning"})
    /\ ss_pc' = "idle"
    /\ UNCHANGED <<ss_today, ss_state, ss_keys, ss_auth_result, ss_ms_attempt, notSsVars>>

\* Midnight passes between two runs.
SsDayPasses ==
    /\ ss_pc = "idle"
    /\ ss_today < MaxDays - 1
    /\ ss_today' = ss_today + 1
    /\ UNCHANGED <<ss_pc, ss_state, ss_keys, ss_rendered, ss_filters, ss_auth_result, ss_ms_attempt,
                   notSsVars>>

SsNext ==
    \/ SsLoginPage
    \/ SsHeader
    \/ SsDateFilter
    \/ SsCustodianFilter
    \/ SsFundFilter
    \/ SsRefreshButton
    \/ SsBody
    \/ SsDayPasses

(***************************************************************************)
(* config/entra_config.py: EntraConfig; core/microsoft_auth.py:            *)
(* MicrosoftEntraAuth.__init__ and is_available.  An environment variable  *)
(* is unset (None) or set to a string; AUTHORIZED_DOMAINS, a               *)
(* comma-separated string, is written as the sequence of its parts.        *)
(***************************************************************************)
default_redirect_uri == "https://analytics.cataliseinvestimentos.com/auth"

EntraEnvs ==
    [MICROSOFT_ENTRA_ENABLED : {None, Some("true"), Some("TRUE"), Some("True"),
                                Some("false"), Some(""), Some("1")},
     AZURE_CLIENT_ID : {None, Some(""), Some("id")},
     AZURE_CLIENT_SECRET : {None, Some(""), Some("secret")},
     REDIRECT_URI : {None, Some(""), Some("https://app/auth")},
     METADATA_URL : {None, Some(""), Some("https://login/metadata")},
     COOKIE_SECRET : {None, Some(""), Some("cookie")},
     AUTHORIZED_DOMAINS : {None, Some(<<"corp.com">>)}]

\* os.getenv(name, default)
getenv(env, name, default) == IF env[name] = None THEN default ELSE env[name][1]

\* str.lower() on the values MICROSOFT_ENTRA_ENABLED takes here.
lower(s) == IF s \in {"TRUE", "True"} THEN "true" ELSE s

\* A slip: _validate_config is not called.
EntraConfig_NotValidated(env) ==
    [enabled |-> lower(getenv(env, "MICROSOFT_ENTRA_ENABLED", "false")) = "true",
     client_id |-> getenv(env, "AZURE_CLIENT_ID", ""),
     client_secret |-> getenv(env, "AZURE_CLIENT_SECRET", ""),
     redirect_uri |-> getenv(env, "REDIRECT_URI", default_redirect_uri),
     metadata_url |-> getenv(env, "METADATA_URL", ""),
     authorized_domains |-> getenv(env, "AUTHORIZED_DOMAINS", <<>>),
     cookie_secret |-> getenv(env, "COOKIE_SECRET", "")]

\* EntraConfig.__init__ (lines 11-21) followed by _validate_config (lines
\* 23-42): enabled is cleared when a required field is falsy.
EntraConfig(env) ==
    LET self == EntraConfig_NotValidated(env)
        required_fields == {self.client_id, self.client_secret, self.redirect_uri,
                            self.metadata_url, self.cookie_secret}
    IN  [self EXCEPT !.enabled = self.enabled /\ "" \notin required_fields]

is_enabled(config) == config.enabled

\* get_config_dict, lines 48-60: the empty dict, or the six entries.
get_config_dict(config) ==
    IF ~config.enabled
    THEN <<>>
    ELSE [client_id |-> config.client_id, client_secret |-> config.client_secret,
          redirect_uri |-> config.redirect_uri, metadata_url |-> config.metadata_url,
          cookie_secret |-> config.cookie_secret,
          authorized_domains |-> config.authorized_domains]

\* MicrosoftEntraAuth.__init__ and _init_oauth2, lines 17-46.
init_oauth2(config, oauth2_error) ==
    IF is_enabled(config) /\ ~oauth2_error THEN Some("OAuth2Component") ELSE None

\* MicrosoftEntraAuth.is_available, lines 48-50.
is_available(config, oauth2) == is_enabled(config) /\ oauth2 # None

EcIdle ==
    /\ ec_pc = "idle"
    /\ ec_env = [name \in {"MICROSOFT_ENTRA_ENABLED", "AZURE_CLIENT_ID", "AZURE_CLIENT_SECRET",
                            "REDIRECT_URI", "METADATA_URL", "COOKIE_SECRET",
                            "AUTHORIZED_DOMAINS"} |-> None]
    /\ ec_oauth2_error = FALSE
    /\ ec_cfg = EntraConfig(ec_env)
    /\ ec_oauth2 = None

EcInit ==
    /\ ec_pc = "env"
    /\ ec_env \in EntraEnvs
    /\ ec_oauth2_error \in BOOLEAN
    /\ ec_cfg = EntraConfig_NotValidated([name \in DOMAIN ec_env |-> None])
    /\ ec_oauth2 = None

\* AuthService.__init__ (core/auth_service.py lines 14-19): EntraConfig(),
\* then MicrosoftEntraAuth(entra_config).
EcConstruct ==
    /\ ec_pc = "env"
    /\ ec_cfg' = EntraConfig(ec_env)
    /\ ec_oauth2' = init_oauth2(ec_cfg', ec_oauth2_error)
    /\ ec_pc' = "built"
    /\ UNCHANGED <<ec_env, ec_oauth2_error, notEcVars>>

EcNext == EcConstruct

(***************************************************************************)
(* utils/auth_utils.py: SimpleAuthenticator.  A bcrypt hash is written     *)
(* <<"bcrypt", password>>: checkpw succeeds exactly on the password that   *)
(* was hashed.  An exception while reading st.secrets has the same effect  *)
(* as an empty 'authentication' section (lines 50-56).                     *)
(***************************************************************************)
max_attempts == 5
lockout_time == 900
MaxTime == 901

hash_password(password) == <<"bcrypt", password>>

\* A slip: any non-empty password is accepted.
check_password_Any(password, hashed) == TRUE

check_password(password, hashed) == hashed = hash_password(password)

\* The fallback of _get_user_credentials, lines 59-78.
simple_demo_users ==
    [admin    |-> [password |-> hash_password("admin123"), role |-> "admin"],
     gestor   |-> [password |-> hash_password("gestor123"), role |-> "manager"],
     analista |-> [password |-> hash_password("analista123"), role |-> "analyst"]]

\* _get_user_credentials, lines 48-81.
get_user_credentials(secrets_auth) ==
    IF DOMAIN secrets_auth # {} THEN secrets_auth ELSE simple_demo_users

\* A slip: the lockout test ignores the time left.
check_rate_limit_NoExpiry(entry, now) ==
    IF entry # None /\ entry[1].count >= max_attempts
    THEN [allowed |-> FALSE, entry |-> entry]
    ELSE [allowed |-> TRUE, entry |-> entry]

\* _check_rate_limit, lines 83-102, on auth_attempts[username] (None when the
\* username is not a key): the answer, and the entry as the call leaves it.
check_rate_limit(entry, now) ==
    IF entry = None
    THEN [allowed |-> TRUE, entry |-> entry]
    ELSE IF now - entry[1].last_attempt > lockout_time
    THEN [allowed |-> TRUE, entry |-> Some([count |-> 0, last_attempt |-> now])]
    ELSE IF /\ entry[1].count >= max_attempts
            /\ lockout_time - (now - entry[1].last_attempt) > 0
    THEN [allowed |-> FALSE, entry |-> entry]
    ELSE [allowed |-> TRUE, entry |-> entry]

\* _record_attempt, lines 104-119.
record_attempt(entry, success, now) ==
    LET known == IF entry = None THEN [count |-> 0, last_attempt |-> now] ELSE entry[1]
    IN  IF success
        THEN Some([count |-> 0, last_attempt |-> now])
        ELSE Some([count |-> known.count + 1, last_attempt |-> now])

\* SimpleAuthenticator.authenticate, lines 121-162: the value returned, the
\* entry of auth_attempts for this username, and whether the rate limit
\* rejected the call.
simple_authenticate(username, password, entry, secrets_auth, now) ==
    IF username = "" \/ password = ""
    THEN [result |-> FALSE, entry |-> entry, limited |-> FALSE]
    ELSE LET checked == check_rate_limit(entry, now)
             users == get_user_credentials(secrets_auth)
             success == IF username \in DOMAIN users
                        THEN check_password(password, users[username].password)
                        ELSE FALSE
         IN  IF ~checked.allowed
             THEN [result |-> FALSE, entry |-> checked.entry, limited |-> TRUE]
             ELSE [result |-> success, entry |-> record_attempt(checked.entry, success, now),
                   limited |-> FALSE]

SimpleNames == {{"admin", "usuario"}, {"gestor", "analista"}}
\* The passwords typed: none, or the one that goes with one of the names.
SimplePasswords(names) == {""} \cup {pair[2] : pair \in {pair \in
    {<<"admin", "admin123">>, <<"gestor", "gestor123">>, <<"analista", "analista123">>,
     <<"usuario", "usuario123">>} : pair[1] \in names}}
Secrets == {<<>>, [usuario |-> [password |-> hash_password("usuario123"), role |-> "user"]]}

NoCall == [username |-> "", password |-> "", result |-> FALSE, limited |-> FALSE]

SaIdle ==
    /\ sa_names = {}
    /\ sa_secrets = <<>>
    /\ sa_now = 0
    /\ sa_attempts = <<>>
    /\ sa_session = [authenticated |-> FALSE, user_data |-> None, session_start |-> None]
    /\ sa_last = NoCall
    /\ sa_streak = <<>>

\* A new session after SimpleAuthenticator.__init__ (lines 20-34).
SaInit ==
    /\ sa_names \in SimpleNames
    /\ sa_secrets \in Secrets
    /\ sa_now = 0
    /\ sa_attempts = [u \in sa_names |-> None]
    /\ sa_session = [authenticated |-> FALSE, user_data |-> None, session_start |-> None]
    /\ sa_last = NoCall
    /\ sa_streak = [u \in sa_names |-> [calls |-> [n |-> 0, last |-> 0],
                                         recorded |-> [n |-> 0, last |-> 0]]]

\* The history of failed calls for a username (all of them under `calls`,
\* those that carried a password and passed the rate limit under `recorded`)
\* after one more call at `now`:
\* a success clears it, a failure after a gap of more than lockout_time
\* starts again at one; the count stops at max_attempts.
Streak(streak, result, now) ==
    IF result THEN [n |-> 0, last |-> now]
    ELSE IF streak.n > 0 /\ now - streak.last > lockout_time THEN [n |-> 1, last |-> now]
    ELSE [n |-> IF streak.n < max_attempts THEN streak.n + 1 ELSE streak.n, last |-> now]

SaAuthenticate ==
    /\ \E username \in sa_names \cup {""}, password \in SimplePasswords(sa_names) :
        LET entry == IF username = "" THEN None ELSE sa_attempts[username]
            out == simple_authenticate(username, password, entry, sa_secrets, sa_now)
            users == get_user_credentials(sa_secrets)
        IN  /\ sa_last' = [username |-> username, password |-> password,
                           result |-> out.result, limited |-> out.limited]
            /\ sa_attempts' = IF username = "" THEN sa_attempts
                              ELSE [sa_attempts EXCEPT ![username] = out.entry]
            /\ sa_session' = IF out.result
                             THEN [authenticated |-> TRUE,
                                   user_data |-> Some([username |-> username,
                                                       role |-> users[username].role]),
                                   session_start |-> Some(sa_now)]
                             ELSE sa_session
            /\ sa_streak' =
                IF username = "" THEN sa_streak
                ELSE [sa_streak EXCEPT ![username] =
                        [calls |-> Streak(@.calls, out.result, sa_now),
                         recorded |-> IF password = "" \/ out.limited THEN @.recorded
                                      ELSE Streak(@.recorded, out.result, sa_now)]]
    /\ UNCHANGED <<sa_names, sa_secrets, sa_now, notSaVars>>

\* Time passes between two calls.
SaTick ==
    /\ sa_names # {}
    /\ \E d \in {lockout_time - 1, lockout_time, lockout_time + 1} :
        /\ sa_now + d <= MaxTime
        /\ sa_now' = sa_now + d
    /\ UNCHANGED <<sa_names, sa_secrets, sa_attempts, sa_session, sa_last, sa_streak, notSaVars>>

SaNext == SaAuthenticate \/ SaTick

(***************************************************************************)
(* ui/kpis.py: KPIManager.calculate_financial_kpis with the cache it keeps *)
(* in st.session_state, and the refresh button of the sidebar.  A date is  *)
(* the ordinal of its day in 2024.                                         *)
(***************************************************************************)
MaxCached == 1

\* DW_STAGING.vw_extrato in the order of the extract query (dt_lancamento
\* DESC, nmfundo); the view holds any subset of these rows.
ViewRows ==
    <<[nmfundo |-> "FUNDO A", fonte |-> "ITAU", dt_lancamento |-> 41, entrada |-> 0, saida |-> 4],
      [nmfundo |-> "FUNDO B", fonte |-> "BRADESCO", dt_lancamento |-> 1, entrada |-> 5, saida |-> 0]>>

KcFilters ==
    {FilterParams(r[1], r[2], funds, custodians, limit) :
        r \in {<<1, 1>>, <<1, 46>>},
        funds \in {None, Some(<<"FUNDO A">>)},
        custodians \in {None, Some(<<"ITAU">>)},
        limit \in {Some(1), Some(10000)}}

\* value IN (list)
InList(value, list) == \E i \in 1..Len(list) : list[i] = value

\* The WHERE clause of build_extract_query (the date range, then the
\* conditions of the fund and custodian lists that are given) on one row.
extract_where(row, filters) ==
    /\ filters.start_date <= row.dt_lancamento /\ row.dt_lancamento <= filters.end_date
    /\ Truthy(filters.funds) => InList(row.nmfundo, filters.funds[1])
    /\ Truthy(filters.custodians) => InList(row.fonte, filters.custodians[1])

\* The first n elements of a sequence
FirstN(seq, n) == SubSeq(seq, 1, IF n < Len(seq) THEN n ELSE Len(seq))

\* DataRepository.get_extract_data, data/repository.py lines 18-28: the rows
\* of the view that the extract query selects, in its order and cut at its
\* LIMIT; the empty frame when the database fails.
get_extract_data(table, filters, fail) ==
    IF fail THEN <<>>
    ELSE LET Selected(row) == extract_where(row, filters)
             Present(i) == i \in table /\ Selected(ViewRows[i])
             Indexes == SelectSeq([i \in 1..Len(ViewRows) |-> i], Present)
             rows == [k \in 1..Len(Indexes) |-> ViewRows[Indexes[k]]]
         IN  IF TruthyInt(filters.limit) THEN FirstN(rows, filters.limit[1]) ELSE rows

\* KPIManager._empty_kpis, lines 221-238
empty_kpis ==
    [total_volume |-> 0, net_flow |-> 0, total_entries |-> 0, total_exits |-> 0,
     operation_count |-> 0, active_funds |-> 0, period_days |-> 0,
     concentration |-> [concentration_index |-> 0,
                        concentration_risk_level |-> "Desconhecido"]]

\* The dict built at lines 41-76 from a non-empty frame: the main KPIs, the
\* concentration metrics and the period.  The liquidity, performance and
\* quality entries are further functions of the same frame.
financial_kpis(query_data, filters) ==
    LET total_entries == SumColumn(query_data, "entrada")
        total_exits == SumColumn(query_data, "saida")
    IN  [total_volume |-> Abs(total_entries) + Abs(total_exits),
         net_flow |-> total_entries - total_exits,
         total_entries |-> total_entries,
         total_exits |-> total_exits,
         operation_count |-> Len(query_data),
         active_funds |-> Cardinality({query_data[i].nmfundo : i \in 1..Len(query_data)}),
         period_days |-> filters.end_date - filters.start_date,
         concentration |-> kpi_concentration_metrics(query_data)]

\* str(filters.funds): 'None', or the repr of the list
str_funds(funds) == IF funds = None THEN <<"None">> ELSE <<"[">> \o funds[1] \o <<"]">>

\* A slip: the funds left out of the key.
cache_key_DatesOnly(filters) == <<"kpis", filters.start_date, filters.end_date>>

\* Line 28: f"kpis_{start_date}_{end_date}_{hash(str(funds))}".  The hash is
\* kept as its argument: distinct texts of this size have distinct hashes.
cache_key(filters) ==
    <<"kpis", filters.start_date, filters.end_date, str_funds(filters.funds)>>

\* One entry of st.session_state; made_for remembers the filters of the call
\* that stored it.
Entry(key, kpis, made_for) == [key |-> key, kpis |-> kpis, made_for |-> made_for]

\* cache_key in st.session_state
Cached(session, key) == \E e \in session : e.key = key

\* st.session_state[cache_key]
Lookup(session, key) == CHOOSE e \in session : e.key = key

\* KPIManager.calculate_financial_kpis, lines 24-86: the value returned, the
\* session state left behind, and whether the cache answered.
calculate_financial_kpis(session, table, filters, fail) ==
    LET key == cache_key(filters)
        query_data == get_extract_data(table, filters, fail)
    IN  IF Cached(session, key)
        THEN [out |-> Lookup(session, key).kpis, session |-> session, hit |-> TRUE,
              made_for |-> Lookup(session, key).made_for]
        ELSE IF query_data = <<>>
        THEN [out |-> empty_kpis, session |-> session, hit |-> FALSE, made_for |-> filters]
        ELSE [out |-> financial_kpis(query_data, filters),
              session |-> session \cup {Entry(key, financial_kpis(query_data, filters), filters)},
              hit |-> FALSE, made_for |-> filters]

\* A slip: the button empties the session's KPI entries too.
cache_data_clear_ClearsSession(session) == {}

\* st.cache_data.clear(), ui/dashboard.py line 204, seen from st.session_state:
\* it empties the st.cache_data store, which holds none of the kpis_ entries.
cache_data_clear(session) == session

NoKpiCall ==
    [filters |-> None, hit |-> FALSE, fail |-> FALSE, after_refresh |-> FALSE,
     out |-> empty_kpis, fresh |-> empty_kpis, made_for |-> None]

KcIdle ==
    /\ kc_table = {}
    /\ kc_session = {}
    /\ kc_refreshed = FALSE
    /\ kc_last = NoKpiCall

\* A new browser session: nothing cached; the view holds some rows.
KcInit ==
    /\ kc_table \in SUBSET (1..Len(ViewRows))
    /\ kc_session = {}
    /\ kc_refreshed = FALSE
    /\ kc_last = NoKpiCall

\* One run of the dashboard reaches lines 134-136 of ui/dashboard.py: the
\* KPIs are calculated for the current filters.
KcCalculate ==
    \E filters \in KcFilters, fail \in BOOLEAN :
        LET res == calculate_financial_kpis(kc_session, kc_table, filters, fail)
        IN  /\ Cardinality(res.session) <= MaxCached
            /\ kc_session' = res.session
            /\ kc_refreshed' = FALSE
            /\ kc_last' = [filters |-> Some(filters), hit |-> res.hit, fail |-> fail,
                           after_refresh |-> kc_refreshed, out |-> res.out,
                           fresh |-> IF get_extract_data(kc_table, filters, FALSE) = <<>>
                                     THEN empty_kpis
                                     ELSE financial_kpis(get_extract_data(kc_table, filters, FALSE),
                                                         filters),
                           made_for |-> Some(res.made_for)]
            /\ UNCHANGED <<kc_table, notKcVars>>

\* "Atualizar Dados", ui/dashboard.py lines 203-205: st.cache_data.clear()
\* and a rerun.
KcRefresh ==
    /\ kc_session' = cache_data_clear(kc_session)
    /\ kc_refreshed' = TRUE
    /\ UNCHANGED <<kc_table, kc_last, notKcVars>>

\* The database gains or loses a row of the view.
KcDataChange ==
    \E i \in 1..Len(ViewRows) :
        /\ kc_table' = IF i \in kc_table THEN kc_table \ {i} ELSE kc_table \cup {i}
        /\ UNCHANGED <<kc_session, kc_refreshed, kc_last, notKcVars>>

KcNext == KcCalculate \/ KcRefresh \/ KcDataChange

(***************************************************************************)
(* Specifications: one per subsystem.  The variables of the other          *)
(* subsystems stay at one fixed value (their Idle or initial state).       *)
(***************************************************************************)
InitAuth == AuthInit /\ DbInit /\ QbIdle
    /\ AnIdle /\ KpiIdle /\ SsInit /\ EcIdle /\ SaIdle /\ KcIdle
SpecAuth == InitAuth /\ [][AuthNext]_vars

InitDb == DbInit /\ AuthIdle /\ QbIdle /\ AnIdle
    /\ KpiIdle /\ SsInit /\ EcIdle /\ SaIdle /\ KcIdle
SpecDb == InitDb /\ [][DbNext]_vars

InitQb == QbInit /\ AuthIdle /\ DbInit /\ AnIdle
    /\ KpiIdle /\ SsInit /\ EcIdle /\ SaIdle /\ KcIdle
SpecQb == InitQb /\ [][QbNext]_vars

InitAn == AnInit /\ AuthIdle /\ DbInit /\ QbIdle
    /\ KpiIdle /\ SsInit /\ EcIdle /\ SaIdle /\ KcIdle
SpecAn == InitAn /\ [][AnNext]_vars

InitKpi == KpiInit /\ AuthIdle /\ DbInit
    /\ QbIdle /\ AnIdle /\ SsInit /\ EcIdle /\ SaIdle /\ KcIdle
SpecKpi == InitKpi /\ [][KpiNext]_vars

InitSession == SsInit /\ AuthIdle /\ DbInit
    /\ QbIdle /\ AnIdle /\ KpiIdle /\ EcIdle /\ SaIdle /\ KcIdle
SpecSession == InitSession /\ [][SsNext]_vars

InitEc == EcInit /\ AuthIdle /\ DbInit /\ QbIdle
    /\ AnIdle /\ KpiIdle /\ SsInit /\ SaIdle /\ KcIdle
SpecEc == InitEc /\ [][EcNext]_vars

InitSa == SaInit /\ AuthIdle /\ DbInit /\ QbIdle
    /\ AnIdle /\ KpiIdle /\ SsInit /\ EcIdle /\ KcIdle
SpecSa == InitSa /\ [][SaNext]_vars

InitKc == KcInit /\ AuthIdle /\ DbInit /\ QbIdle
    /\ AnIdle /\ KpiIdle /\ SsInit /\ EcIdle /\ SaIdle
SpecKc == InitKc /\ [][KcNext]_vars

(***************************************************************************)
(* Claims                                                                  *)
(***************************************************************************)
\* The three demo credential pairs of the specification.
DemoPairs == {<<"admin", "admin123">>, <<"gestor", "gestor123">>, <<"usuario", "usuario123">>}
DemoProfile == [admin |-> "admin", gestor |-> "gestor", usuario |-> "viewer"]

\* C2: authenticate returns a User exactly for the three demo pairs and None
\* for every other pair; the user carries the supplied username and the
\* profile admin, gestor, viewer respectively.
C2_DemoPairsOnly ==
    auth_pc = "done" =>
        /\ (auth_result # None) <=> (<<auth_username, auth_password>> \in DemoPairs)
        /\ auth_result # None =>
              /\ auth_result[1].username = auth_username
              /\ auth_result[1].profile = DemoProfile[auth_username]

\* C2 witness: a demo pair was accepted and a wrong password for a demo name
\* is the state next to it; here the accepted viewer login.
C2_Witness ==
    /\ auth_pc = "done"
    /\ auth_username = "usuario"
    /\ auth_password = "usuario123"
    /\ auth_result # None
    /\ auth_result[1].profile = "viewer"

\* A query operation failed: the statement could not be run to its end.
QueryFailed(op) ==
    \/ op.fail \in {"connect_error", "query_error"}
    \/ op.name = "execute_update" /\ op.fail = "commit_error"

\* C3: with the database offline (is_connected() false) or a failing query,
\* execute_query returns an empty frame and execute_update returns 0, without
\* raising and, when offline, without calling the engine; every repository
\* read returns an empty result instead of raising; is_connected() itself
\* never raises.
C3_DegradesToEmpty ==
    /\ db_pc = "ready" => ~is_connected_raises(db_inst, db_cls)
    /\ db_op.name \in {"execute_query", "execute_update"} \cup RepoReads =>
          /\ ~db_op.raised
          /\ ~db_op.connected => (db_op.rows = 0 /\ ~db_op.touched)
          /\ (db_op.connected /\ QueryFailed(db_op)) => db_op.rows = 0
          /\ (db_op.post_error /\ db_op.name \in PostProcessed) => db_op.rows = 0

\* C3 witness: a repository read made while the manager is offline after three
\* failed attempts, with a database that would have answered with rows.
C3_Witness ==
    /\ db_pc = "ready"
    /\ db_tries = max_retries
    /\ db_op.name = "get_extract_data"
    /\ ~db_op.connected
    /\ db_op.avail > 0
    /\ db_op.rows = 0
    /\ ~db_op.touched

\* The waits of the backoff: 2 s, then 4 s.
Backoff == <<2, 4>>

\* C4: at most 3 attempts per construction; every failure but the last is
\* followed by a wait, 2 s then 4 s; a successful attempt ends the loop with
\* the connection available; after the third failure the constructor returns
\* without a further wait and the manager is offline.
C4_RetryBackoff ==
    /\ db_tries <= 3
    /\ Len(db_sleeps) <= 2
    /\ \A i \in 1..Len(db_sleeps) : db_sleeps[i] = Backoff[i]
    /\ db_pc = "init" => (db_tries < 3 /\ Len(db_sleeps) = db_tries)
    /\ (db_pc = "ready" /\ db_tries > 0) =>
          IF db_inst.available = <<TRUE>>
          THEN /\ Len(db_sleeps) = db_tries - 1
               /\ is_connected(db_inst, db_cls)
          ELSE /\ db_tries = 3
               /\ db_sleeps = Backoff
               /\ db_inst.available = <<FALSE>>
               /\ ~is_connected(db_inst, db_cls)

\* C4 witness: the constructor has returned after three failed attempts.
C4_Witness ==
    /\ db_pc = "ready"
    /\ db_tries = 3
    /\ db_sleeps = <<2, 4>>
    /\ ~is_connected(db_inst, db_cls)

\* The positions of the piece `opening` ("nmfundo IN (" or "fonte IN (") in a query.
InPositions(q, opening) == {i \in 1..Len(q) : q[i] = opening}

\* The position of the first ")" piece after position i (0 when there is none).
Closing(q, i) ==
    IF \E j \in (i + 1)..Len(q) : q[j] = ")"
    THEN CHOOSE j \in (i + 1)..Len(q) :
            q[j] = ")" /\ \A k \in (i + 1)..(j - 1) : q[k] # ")"
    ELSE 0

\* The IN list opened at position i is n placeholders separated by commas.
InListOf(q, i, n) ==
    /\ Closing(q, i) = i + 2 * n
    /\ \A k \in 1..(2 * n - 1) : q[i + k] = IF k % 2 = 1 THEN "%s" ELSE ","

ListOf(opt) == IF opt = None THEN <<>> ELSE opt[1]

\* C9: for every build_* method and FilterParams, the query holds one
\* "nmfundo IN (...)" condition with len(funds) placeholders iff funds is
\* non-empty, one "fonte IN (...)" condition with len(custodians) placeholders
\* iff custodians is non-empty, never an empty IN list, and the params tuple
\* is start_date, end_date, the funds in order, the custodians in order.
C9_InListsMatchParams ==
    (qb_pc = "done" /\ qb_method \in BuildMethods) =>
        LET q == qb_out.query
            funds == ListOf(qb_filters.funds)
            custodians == ListOf(qb_filters.custodians)
        IN  /\ (funds # <<>>) <=> (InPositions(q, "nmfundo IN (") # {})
            /\ (custodians # <<>>) <=> (InPositions(q, "fonte IN (") # {})
            /\ Cardinality(InPositions(q, "nmfundo IN (")) <= 1
            /\ Cardinality(InPositions(q, "fonte IN (")) <= 1
            /\ \A i \in InPositions(q, "nmfundo IN (") :
                  Len(funds) >= 1 /\ InListOf(q, i, Len(funds))
            /\ \A i \in InPositions(q, "fonte IN (") :
                  Len(custodians) >= 1 /\ InListOf(q, i, Len(custodians))
            /\ qb_out.params
                  = <<qb_filters.start_date, qb_filters.end_date>> \o funds \o custodians

\* C9 witness: a builder was called with two funds and one custodian.
C9_Witness ==
    /\ qb_pc = "done"
    /\ qb_method = "build_concentration_query"
    /\ qb_filters.funds = Some(<<"FUNDO B", "FUNDO A">>)
    /\ qb_filters.custodians = Some(<<"ITAU">>)
    /\ qb_out.params = <<qb_filters.start_date, qb_filters.end_date, "FUNDO B", "FUNDO A", "ITAU">>

\* The values a FilterParams carries into the database: dates and names.
FilterValues(filters) ==
    {filters.start_date, filters.end_date}
    \cup {ListOf(filters.funds)[i] : i \in 1..Len(ListOf(filters.funds))}
    \cup {ListOf(filters.custodians)[i] : i \in 1..Len(ListOf(filters.custodians))}

\* C10: no date, fund name or custodian name is part of the query text, and
\* two FilterParams with the same number of funds, the same number of
\* custodians and the same limit get the same query text from the same method.
C10_Parameterized ==
    qb_pc = "done" =>
        /\ \A i \in 1..Len(qb_out.query) : qb_out.query[i] \notin FilterValues(qb_filters)
        /\ \A i \in 1..Len(qb_out2.query) : qb_out2.query[i] \notin FilterValues(qb_filters2)
        /\ qb_out.query = qb_out2.query

\* C10 witness: two calls whose funds, custodians and dates differ, with two
\* funds each, got one text and different params.
C10_Witness ==
    /\ qb_pc = "done"
    /\ Len(ListOf(qb_filters.funds)) = 2
    /\ Len(ListOf(qb_filters.custodians)) = 1
    /\ qb_filters.funds # qb_filters2.funds
    /\ qb_filters.custodians # qb_filters2.custodians
    /\ qb_filters.end_date # qb_filters2.end_date
    /\ qb_out.query = qb_out2.query
    /\ qb_out.params # qb_out2.params

\* C5: analyze_liquidity, analyze_concentration and analyze_balance_evolution
\* never raise; when the repository returns no rows or a computation step
\* throws, the AnalysisResult has success = false and a message; and whenever
\* success = true, metrics, alerts, data and summary are all set.
C5_AnalysesDegrade ==
    an_pc = "done" =>
        /\ ~an_result.raised
        /\ an_result.result.analysis_type = an_kind
        /\ (an_df = <<>> \/ an_step_error # "none") =>
                /\ ~an_result.result.success
                /\ an_result.result.message # None
        /\ an_result.result.success =>
                /\ an_result.result.metrics # None
                /\ an_result.result.alerts # None
                /\ an_result.result.data # None
                /\ an_result.result.summary # None

\* An analysis of an empty frame has returned its failure.
C5_Witness ==
    /\ an_pc = "done"
    /\ an_kind = "concentration"
    /\ an_df = <<>>
    /\ ~an_result.raised
    /\ ~an_result.result.success
    /\ an_result.result.message = Some("Sem dados para analise")

\* A fund's total entries over |total exits|, over all its rows.
FundRatio(df, fund) ==
    IF SumField(df, fund, "total_exits") # 0
    THEN Quotient(SumField(df, fund, "total_entries"),
                  Abs(SumField(df, fund, "total_exits")))
    ELSE Inf

\* C6: in a successful analyze_liquidity result the metrics map has exactly
\* one entry per fund present in the data, and each fund's value is its total
\* entries divided by the absolute value of its total exits, taken over all
\* the rows the liquidity query returns for that fund.
C6_RatioOverAllRows ==
    (an_pc = "done" /\ an_kind = "liquidity" /\ an_result.result.success) =>
        LET metrics == an_result.result.metrics[1]
        IN  /\ DictKeys(metrics) = {an_df[i].nmfundo : i \in 1..Len(an_df)}
            /\ Len(metrics) = Cardinality(DictKeys(metrics))
            /\ \A i \in 1..Len(metrics) :
                    SameQuotient(metrics[i][2].value, FundRatio(an_df, metrics[i][1]))

\* C6, the part that holds: one entry per fund present in the data, and for a
\* fund with a single row the value is that row's entries over |exits|.
C6_OneEntryPerFund ==
    (an_pc = "done" /\ an_kind = "liquidity" /\ an_result.result.success) =>
        LET metrics == an_result.result.metrics[1]
        IN  /\ DictKeys(metrics) = {an_df[i].nmfundo : i \in 1..Len(an_df)}
            /\ Len(metrics) = Cardinality(DictKeys(metrics))
            /\ \A i \in 1..Len(metrics) :
                    Cardinality({j \in 1..Len(an_df) : an_df[j].nmfundo = metrics[i][1]}) = 1
                        => SameQuotient(metrics[i][2].value, FundRatio(an_df, metrics[i][1]))

\* The fund held at two custodians: the value reported is the last row's.
C6_TwoCustodians ==
    /\ an_pc = "done"
    /\ an_kind = "liquidity"
    /\ an_df = <<LiquidityRow(<<"FUNDO A", "BRADESCO">>, <<100, 50>>),
                 LiquidityRow(<<"FUNDO A", "ITAU">>, <<10, 50>>)>>
    /\ an_result.result.success
    /\ SameQuotient(DictGet(an_result.result.metrics[1], "FUNDO A").value, Quotient(1, 5))

\* The volume of every fund of the frame, the total T and the sum of squares.
C7_Volume == fund_volumes(kpi_data)
C7_Total == SumOver(C7_Volume, DOMAIN C7_Volume)
C7_Squares == SumOver([f \in DOMAIN C7_Volume |-> C7_Volume[f] * C7_Volume[f]], DOMAIN C7_Volume)

\* C7 as stated (values in hundredths): concentration_index equals the sum over funds of the squared
\* percentage share divided by 100 (that is 100 * sum(v^2) / T^2), is 0 when
\* the total volume is 0, and is 100, with top_fund_percentage, for a single
\* fund of non-zero volume.
C7_ExactIndex ==
    kpi_pc = "done" =>
        /\ C7_Total = 0 => kpi_out.concentration_index = 0
        /\ C7_Total # 0 =>
                kpi_out.concentration_index * C7_Total * C7_Total = 100 * 100 * C7_Squares
        /\ (Cardinality(DOMAIN C7_Volume) = 1 /\ C7_Total # 0) =>
                /\ kpi_out.concentration_index = 100 * 100
                /\ kpi_out.top_fund_percentage = 100 * 100

\* C7, amended: concentration_index is that sum rounded to two decimal
\* places (within half a hundredth of it), 0 when the total volume is 0, and
\* 100, with top_fund_percentage, for a single fund of non-zero volume.
C7_RoundedIndex ==
    kpi_pc = "done" =>
        /\ C7_Total = 0 => kpi_out.concentration_index = 0
        /\ C7_Total # 0 =>
                2 * Abs(kpi_out.concentration_index * C7_Total * C7_Total
                        - 100 * 100 * C7_Squares) <= C7_Total * C7_Total
        /\ (Cardinality(DOMAIN C7_Volume) = 1 /\ C7_Total # 0) =>
                /\ kpi_out.concentration_index = 100 * 100
                /\ kpi_out.top_fund_percentage = 100 * 100

\* Two funds of volumes 1 and 2: the exact index 55.55... is reported as 55.56.
C7_Witness ==
    /\ kpi_pc = "done"
    /\ kpi_data = <<ExtractRow("FUNDO A", <<1, 0>>), ExtractRow("FUNDO B", <<2, 0>>)>>
    /\ kpi_out.concentration_index = 5556

\* C1: a session starts unauthenticated; a run renders components of the main
\* dashboard (header, sidebar, KPIs, the extract, analysis and monitoring
\* tabs) only if dashboard_state.authenticated is true; authenticated becomes
\* true only in a run in which AuthService.authenticate or
\* authenticate_microsoft returned a user, stored as current_user in the same
\* step; so authenticated always implies that current_user is set.
C1_LoginWall ==
    /\ ~ss_state.authenticated
    /\ [](ss_state.authenticated => ss_state.current_user # None)
    /\ [](ss_pc # "idle" => ss_state.authenticated)
    /\ [][(ss_rendered' # ss_rendered /\ ss_rendered' # {}) => ss_state.authenticated]_vars
    /\ [][(~ss_state.authenticated /\ ss_state.authenticated') =>
            (ss_auth_result' # None /\ ss_state.current_user' = ss_auth_result')]_vars

\* The demo administrator has logged in and a run has rendered the KPIs and
\* the tabs.
C1_Witness ==
    /\ ss_state.authenticated
    /\ ss_state.current_user = Some(demo_users.admin.user)
    /\ {"kpis", "extrato", "analysis", "monitoring"} \subseteq ss_rendered

\* C8: every FilterParams built by _get_current_filters, after any sequence
\* of sidebar selections, has start_date <= end_date, and its funds and its
\* custodians are each None or a non-empty list.
C8_FiltersWellFormed ==
    ss_filters # None =>
        /\ ss_filters[1].start_date <= ss_filters[1].end_date
        /\ IF ss_filters[1].funds = None THEN TRUE ELSE ss_filters[1].funds[1] # <<>>
        /\ IF ss_filters[1].custodians = None THEN TRUE
           ELSE ss_filters[1].custodians[1] # <<>>

\* Filters built from a custom range, one fund chosen and no custodian.
C8_Witness ==
    /\ ss_filters # None
    /\ ss_state.date_range = Some(<<ss_today - default_period_days, ss_today - 1>>)
    /\ ss_filters[1].start_date < ss_filters[1].end_date
    /\ ss_filters[1].funds = Some(<<"FUNDO A">>)
    /\ ss_state.selected_custodians = <<>>
    /\ ss_filters[1].custodians = None


(***************************************************************************)
(* C11.  Connections are returned to the pool.                             *)
(***************************************************************************)
\* C11 as stated: whenever no operation is in progress, no connection is
\* checked out.
C11_AllReturned == db_pc # "init" => db_checked_out = 0

\* C11 as the code has it: a with-block over get_connection leaves its
\* connection checked out exactly when one was acquired and is_connected()
\* is false in the finally clause, whether or not the block raised; and an
\* initialisation attempt that succeeds has returned its test connection.
C11_ReturnedWhenAlive ==
    /\ [](db_op.name = "get_connection" =>
            (db_op.rows = 0 <=> (~db_op.touched \/ db_op.connected)))
    /\ [][db_pc = "init" /\ db_inst'.available = <<TRUE>> =>
            db_checked_out' = db_checked_out]_vars

\* The body of a with-block raised and its connection was returned.
C11_Witness ==
    /\ db_op.name = "get_connection"
    /\ db_op.fail = "body_error" /\ db_op.raised /\ db_op.connected
    /\ db_checked_out = 0


(***************************************************************************)
(* C12.  When Microsoft Entra is enabled.                                  *)
(***************************************************************************)
\* The flag is 'true' in some letter case.
FlagTrue == ec_env.MICROSOFT_ENTRA_ENABLED \in {Some("true"), Some("TRUE"), Some("True")}

\* The variable is set to a non-empty string.
NonEmpty(name) == ec_env[name] # None /\ ec_env[name] # Some("")

DemoCall == sa_secrets = <<>> /\ sa_last # NoCall /\ ~sa_last.limited

\* C13 as stated: such a call succeeds exactly for admin/admin123,
\* gestor/gestor123 and usuario/usuario123.
C13_SpecDemoSet ==
    DemoCall =>
        (sa_last.result <=>
            <<sa_last.username, sa_last.password>> \in
                {<<"admin", "admin123">>, <<"gestor", "gestor123">>, <<"usuario", "usuario123">>})

\* C13 as the code has it: the third demo user is analista/analista123.
C13_CodeDemoSet ==
    DemoCall =>
        (sa_last.result <=>
            <<sa_last.username, sa_last.password>> \in
                {<<"admin", "admin123">>, <<"gestor", "gestor123">>, <<"analista", "analista123">>})

\* usuario/usuario123 was tried against the demo credentials and refused.
C13_Witness ==
    /\ DemoCall
    /\ sa_last.username = "usuario" /\ sa_last.password = "usuario123" /\ ~sa_last.result

(***************************************************************************)
(* C18.  Rate limiting of SimpleAuthenticator.                             *)
(***************************************************************************)
\* The step is an authenticate call for username u.
CallFor(u) == sa_now' = sa_now /\ sa_last'.username = u

\* The step is a call for u with the password that is configured for u.
RightPassword(u) ==
    /\ u \in DOMAIN get_user_credentials(sa_secrets)
    /\ get_user_credentials(sa_secrets)[u].password = <<"bcrypt", sa_last'.password>>

\* Attempts for one username leave the entries of the others alone.
OthersUntouched == \A v \in sa_names : v # sa_last'.username => sa_attempts'[v] = sa_attempts[v]

\* C18 as stated: after max_attempts failed calls in a row for u, a call for
\* u made less than lockout_time after the last recorded attempt returns
\* false.
C18_AnyFailedCallCounts ==
    [][\A u \in sa_names :
        (/\ CallFor(u)
         /\ sa_streak[u].calls.n >= max_attempts
         /\ sa_attempts[u] # None
         /\ sa_now - sa_attempts[u][1].last_attempt < lockout_time)
        => ~sa_last'.result]_vars

\* C18 amended: the failed calls that count are those that carried a
\* password.  After max_attempts of them, a call for u within lockout_time of
\* the last one is rejected and leaves the entry as it was; from lockout_time
\* on the right password is accepted again; other usernames are untouched.
C18_RateLimit ==
    /\ [][\A u \in sa_names :
            (/\ CallFor(u)
             /\ sa_last'.password # ""
             /\ sa_streak[u].recorded.n >= max_attempts
             /\ sa_now - sa_streak[u].recorded.last < lockout_time)
            => /\ ~sa_last'.result /\ sa_last'.limited
               /\ sa_attempts'[u] = sa_attempts[u]]_vars
    /\ [][\A u \in sa_names :
            (/\ CallFor(u) /\ RightPassword(u)
             /\ sa_streak[u].recorded.n >= max_attempts
             /\ sa_now - sa_streak[u].recorded.last >= lockout_time)
            => sa_last'.result]_vars
    /\ [][sa_now' = sa_now => OthersUntouched]_vars

\* admin is locked out while usuario has a failure on record: the right
\* password for admin has just been rejected by the rate limit.
C18_Witness ==
    /\ sa_names = {"admin", "usuario"} /\ sa_secrets = <<>>
    /\ sa_last = [username |-> "admin", password |-> "admin123", result |-> FALSE,
                  limited |-> TRUE]
    /\ sa_streak["admin"].recorded.n >= max_attempts
    /\ sa_attempts["usuario"] # None /\ sa_attempts["usuario"][1].count = 1
    /\ sa_now = lockout_time - 1

(***************************************************************************)
(* C14.  Demo users and the state of the database connection.              *)
(***************************************************************************)
\* C14 as stated: a login is accepted only while is_connected() is false.
C14_DemoOnlyOffline == auth_pc = "done" /\ auth_result # None => ~auth_connected

\* C14 as the code has it: a demo pair is accepted, as a user of provider
\* 'demo', whatever is_connected() answers.
C14_DemoEitherWay ==
    auth_pc = "done" /\ <<auth_username, auth_password>> \in DemoPairs =>
        auth_result # None /\ auth_result[1].provider = "demo"

\* admin/admin123 was accepted while the database was connected.
C14_Witness ==
    /\ auth_pc = "done" /\ auth_connected
    /\ auth_username = "admin" /\ auth_password = "admin123"
    /\ auth_result # None

(***************************************************************************)
(* C15.  The retry loop runs only when the pool is created.                *)
(***************************************************************************)
\* The instance in use was constructed without entering the loop.
SharedInstance == db_pc = "ready" /\ db_tries = 0

\* The two instances have the same pool, the same engine (or none: an engine
\* attribute never assigned or holding None) and the same availability.
Shares(a, b) ==
    /\ a.pool = b.pool
    /\ (IF a.engine = Unset THEN <<None>> ELSE a.engine)
         = (IF b.engine = Unset THEN <<None>> ELSE b.engine)
    /\ a.available = b.available

\* Once the class holds a pool and no loop is running, no step enters the
\* loop, makes an attempt or waits; a step that replaces the instance gives it
\* the class's pool, engine and availability.
NoRetryOncePoolExists ==
    db_pc # "init" /\ db_cls.pool # None =>
        /\ db_pc' # "init"
        /\ db_tries' \in {db_tries, 0}
        /\ db_sleeps' \in {db_sleeps, <<>>}
        /\ db_inst' # db_inst =>
              db_inst' = [pool |-> <<db_cls.pool>>, engine |-> <<db_cls.engine>>,
                          available |-> <<db_cls.available>>]

AuthKeys == {"microsoft_user", "microsoft_user_info", "auth_provider", "authenticated",
             "current_user"}

\* C16: the step that ends an authenticated session (Sair) leaves the session
\* between runs; while the session is unauthenticated there is no current
\* user, none of the authentication keys is in the session state and a run
\* renders the login page; and until authenticated is true again no step
\* renders a dashboard component.
C16_Logout ==
    /\ [][ss_state.authenticated /\ ~ss_state'.authenticated =>
            ss_pc' = "idle" /\ ss_state' = NewDashboardState]_vars
    /\ [](~ss_state.authenticated =>
            /\ ss_state.current_user = None
            /\ ss_keys.auth \cap AuthKeys = {}
            /\ run(ss_state) = "login")
    /\ [][~ss_state.authenticated => ss_rendered' \in {ss_rendered, {}}]_vars

\* A session is back on the login page after Sair: the fund selection made
\* while logged in is still in the session, no authentication key is, and a
\* run has rendered the login page.
C16_Witness ==
    /\ ~ss_state.authenticated
    /\ ss_keys.auth = {}
    /\ ss_keys.selected_funds # None
    /\ ss_rendered = {}
    /\ ss_pc = "idle"

(***************************************************************************)
(* C17.  Who sees the monitoring page.                                     *)
(***************************************************************************)
\* C17: a run has the monitoring page among its components only for an
\* authenticated user of profile admin or gestor; a run that rendered the tabs
\* for any other profile shows the permission warning in its place.
C17_MonitoringPermission ==
    /\ "monitoring" \in ss_rendered =>
          /\ ss_state.authenticated /\ ss_state.current_user # None
          /\ ss_state.current_user[1].profile \in {"admin", "gestor"}
    /\ ("extrato" \in ss_rendered /\ ss_state.current_user # None) =>
          IF ss_state.current_user[1].profile \in {"admin", "gestor"}
          THEN "monitoring" \in ss_rendered /\ "permission_warning" \notin ss_rendered
          ELSE "monitoring" \notin ss_rendered /\ "permission_warning" \in ss_rendered

\* A Microsoft account of profile analista has opened the dashboard and sees
\* the warning in the monitoring tab.
C17_Witness ==
    /\ ss_state.authenticated
    /\ ss_state.current_user[1].profile = "analista"
    /\ ss_state.current_user[1].provider = "microsoft"
    /\ {"extrato", "analysis", "permission_warning"} \subseteq ss_rendered

(***************************************************************************)
(* C19, C20.  The KPI cache kept in st.session_state.                      *)
(***************************************************************************)
\* The last call was made while the database answered.
KpiCallAnswered == kc_last.filters # None /\ ~kc_last.fail

\* C19 as stated: the first call after "Atualizar Dados" queries the
\* repository again and returns the KPIs of the data the database holds then.
C19_RefreshRecomputes ==
    (KpiCallAnswered /\ kc_last.after_refresh) =>
        /\ ~kc_last.hit
        /\ kc_last.out = kc_last.fresh

\* C19: what the code does.  An entry stored in the session is never removed
\* or replaced, by the refresh button or otherwise, and every later call with
\* its key returns it without a query, whatever the database holds by then.
C19_CachedValueKept ==
    [][/\ kc_session \subseteq kc_session'
       /\ \A e \in kc_session :
            (kc_last' # kc_last /\ cache_key(kc_last'.filters[1]) = e.key) =>
                kc_last'.hit /\ kc_last'.out = e.kpis]_vars

\* The first call after a refresh was answered from the cache with KPIs that
\* are not those of the data in the database.
C19_Witness ==
    /\ KpiCallAnswered
    /\ kc_last.after_refresh
    /\ kc_last.hit
    /\ kc_last.out # kc_last.fresh

\* C20 as stated: a value served from the cache was stored for the very
\* filters of the call.
C20_CachedForSameFilters ==
    (kc_last.filters # None /\ kc_last.hit) => kc_last.made_for = kc_last.filters

\* C20: what the code does.  A value served from the cache was stored for
\* filters with the same start date, end date and funds; and a call that the
\* cache does not answer returns the KPIs of the data its filters select.
C20_CachedForSameDatesAndFunds ==
    /\ (kc_last.filters # None /\ kc_last.hit) =>
            /\ kc_last.made_for[1].start_date = kc_last.filters[1].start_date
            /\ kc_last.made_for[1].end_date = kc_last.filters[1].end_date
            /\ kc_last.made_for[1].funds = kc_last.filters[1].funds
    /\ (KpiCallAnswered /\ ~kc_last.hit) => kc_last.out = kc_last.fresh

\* With the database unchanged, a call filtered by custodian was answered with
\* the KPIs stored by a call that had no custodian filter, which are not the
\* KPIs of the rows it selects.
C20_Witness ==
    /\ KpiCallAnswered
    /\ kc_last.hit
    /\ kc_last.filters[1].custodians = Some(<<"ITAU">>)
    /\ kc_last.made_for[1].custodians = None
    /\ kc_last.made_for[1].limit = kc_last.filters[1].limit
    /\ kc_last.out = financial_kpis(get_extract_data(kc_table, kc_last.made_for[1], FALSE),
                                    kc_last.made_for[1])
    /\ kc_last.out # kc_last.fresh

(***************************************************************************)
(* C21.  The rewriting of placeholders by execute_query.                   *)
(***************************************************************************)
\* The positions of the filter placeholders of a built query: the %s pieces
\* that do not open the LIKE pattern.
FilterPlaceholders(q) ==
    {i \in 1..Len(q) : q[i] = "%s" /\ (i = 1 \/ q[i - 1] # LikePatternOpening)}

\* The positions of all the %s pieces of a query.
Markers(q) == {i \in 1..Len(q) : q[i] = "%s"}

\* The number of positions of P before position i.
RankIn(P, i) == Cardinality({j \in P : j < i})

\* The text `named` is `q` with the k-th position of P, for k up to n, holding
\* the name of parameter k - 1, and every other piece as in q.
RewrittenAt(q, named, P, n) ==
    /\ Len(named) = Len(q)
    /\ \A i \in 1..Len(q) :
        named[i] = IF i \in P /\ RankIn(P, i) < n THEN param_name(RankIn(P, i)) ELSE q[i]

\* The built query was rewritten at exactly its filter placeholders, each
\* bound to the parameter of its rank, and no %s is left.
BoundToFilterPlaceholders ==
    /\ Cardinality(FilterPlaceholders(qb_out.query)) = Len(qb_out.params)
    /\ RewrittenAt(qb_out.query, qb_named, FilterPlaceholders(qb_out.query), Len(qb_out.params))
    /\ Markers(qb_named) = {}

\* C21 as stated: for the pair of every build_* method, execute_query rewrites
\* exactly the filter placeholders, the i-th parameter at the i-th of them,
\* alters nothing else and leaves no %s.
C21_BindsFilterPlaceholders ==
    (qb_pc = "executed" /\ qb_method \in BuildMethods) => BoundToFilterPlaceholders

\* C21: what the code does.  The first len(params) occurrences of %s in the
\* text are rewritten, whatever they are: for every build_* method but
\* build_operation_summary_query these are the filter placeholders; for
\* build_operation_summary_query the first is the %s of LIKE '%saque%' and the
\* last filter placeholder is left as %s.
C21_FirstMarkersRewritten ==
    qb_pc = "executed" =>
        /\ RewrittenAt(qb_out.query, qb_named, Markers(qb_out.query), Len(qb_out.params))
        /\ (qb_method \in BuildMethods \ {"build_operation_summary_query"})
                => BoundToFilterPlaceholders
        /\ qb_method = "build_operation_summary_query" =>
                /\ qb_named[2] = param_name(0)
                /\ Cardinality(Markers(qb_named)) = 1
                /\ Markers(qb_named) \subseteq FilterPlaceholders(qb_out.query)

\* The summary query was run for two funds and a custodian: the pattern of
\* LIKE took the name of the first parameter and one placeholder kept its %s.
C21_Witness ==
    /\ qb_pc = "executed"
    /\ qb_method = "build_operation_summary_query"
    /\ Len(qb_out.params) = 5
    /\ qb_named[2] = ":param_0"
    /\ Markers(qb_named) # {}

(***************************************************************************)
(* C22.  Liquidity classification and alerts.                              *)
(***************************************************************************)
\* The classification the thresholds give to a ratio: status and severity.
ClassOf(ratio) ==
    IF ratio.den = 0 THEN <<"Alta", "warning">>
    ELSE IF 10 * ratio.num < liquidity_ratio_min_x10 * ratio.den
    THEN <<"Baixa", IF 2 * ratio.num < ratio.den THEN "critical" ELSE "warning">>
    ELSE IF 10 * ratio.num > liquidity_ratio_max_x10 * ratio.den
    THEN <<"Alta", "warning">>
    ELSE <<"Normal", "info">>

\* The metrics of a dict whose severity raises an alert, as (fund, severity).
Alerting(metrics) ==
    {<<metrics[i][1], metrics[i][2].severity>> :
        i \in {j \in 1..Len(metrics) : metrics[j][2].severity \in {"warning", "critical"}}}

\* C22: in a successful analyze_liquidity every metric's status and severity
\* are those its value gets from the thresholds (below the minimum: Baixa,
\* critical under 0.5 and warning otherwise; above the maximum: Alta, warning;
\* else Normal, info), a metric made from a row without exits has the infinite
\* value and is Alta/warning, and the alerts are one per fund whose severity
\* is warning or critical, with that severity.
C22_LiquidityClassification ==
    (an_pc = "done" /\ an_kind = "liquidity" /\ an_result.result.success) =>
        LET metrics == an_result.result.metrics[1]
            alerts == an_result.result.alerts[1]
        IN  /\ \A i \in 1..Len(metrics) :
                    /\ <<metrics[i][2].status, metrics[i][2].severity>> = ClassOf(metrics[i][2].value)
                    /\ metrics[i][2].metadata.total_exits = 0 =>
                            /\ metrics[i][2].value.den = 0
                            /\ metrics[i][2].status = "Alta"
                            /\ metrics[i][2].severity = "warning"
            /\ {<<alerts[k].fund, alerts[k].severity>> : k \in 1..Len(alerts)} = Alerting(metrics)
            /\ Len(alerts) = Cardinality(Alerting(metrics))

\* Two funds: one at 0.6 (Baixa, warning) and one at 1 (Normal, info); the
\* only alert is the warning of the first.
C22_Witness ==
    /\ an_pc = "done"
    /\ an_kind = "liquidity"
    /\ an_result.result.success
    /\ Len(an_result.result.metrics[1]) = 2
    /\ \E i, j \in 1..2 :
        LET metrics == an_result.result.metrics[1]
            alerts == an_result.result.alerts[1]
        IN  /\ SameQuotient(metrics[i][2].value, Quotient(3, 5))
            /\ metrics[i][2].status = "Baixa" /\ metrics[i][2].severity = "warning"
            /\ metrics[j][2].status = "Normal" /\ metrics[j][2].severity = "info"
            /\ Len(alerts) = 1
            /\ alerts[1].fund = metrics[i][1] /\ alerts[1].severity = "warning"

(***************************************************************************)
(* C23.  Concentration metrics and alerts.                                 *)
(***************************************************************************)
\* A concentration analysis has succeeded.
ConcentrationDone ==
    an_pc = "done" /\ an_kind = "concentration" /\ an_result.result.success

\* The funds having a row above 20 %.
HighFunds == {an_df[i].nmfundo : i \in {j \in 1..Len(an_df) :
                                            an_df[j].concentration_pct > high_concentration_x100}}

\* The per-fund entries of the metrics dict.
FundMetrics(metrics) == {i \in 1..Len(metrics) : metrics[i][1] # "overall"}

\* The funds with a row above 20 % are the funds with a metric and the funds
\* with an alert, one alert each with the metric's severity and value; the
\* overall metric holds the maximum and has no alert.
C23_MetricsAndAlerts ==
    LET metrics == an_result.result.metrics[1]
        alerts == an_result.result.alerts[1]
    IN  /\ {metrics[i][1] : i \in FundMetrics(metrics)} = HighFunds
        /\ Cardinality(FundMetrics(metrics)) = Cardinality(HighFunds)
        /\ {alerts[k].fund : k \in 1..Len(alerts)} = HighFunds
        /\ Len(alerts) = Cardinality(HighFunds)
        /\ \A k \in 1..Len(alerts) :
                /\ alerts[k].severity = DictGet(metrics, alerts[k].fund).severity
                /\ alerts[k].value = DictGet(metrics, alerts[k].fund).value
        /\ DictGet(metrics, "overall").value = MaxColumn(an_df, "concentration_pct")
        /\ \A i \in FundMetrics(metrics) :
                metrics[i][2].severity =
                    IF metrics[i][2].value > critical_concentration_x100
                    THEN "critical" ELSE "warning"

EvolutionData == an_result.result.data[1].evolution_data

\* The rows of fund E[i].nmfundo up to and including row i, and before it.
UpTo(E, i) == {j \in 1..i : E[j].nmfundo = E[i].nmfundo}
Before(E, i) == UpTo(E, i) \ {i}

\* The sum of daily_net_flow over the rows of the index set J.
FlowOver(E, J) == SumOver([j \in 1..Len(E) |-> E[j].daily_net_flow], J)

\* C24: the rows of the daily frame are kept, each fund's in date order; the
\* cumulative_flow of a row is the sum of daily_net_flow over its fund's rows
\* up to and including it; the pct_change of a fund's first row is 0, a change
\* from a previous cumulative flow of 0 is 0, and any other change is the
\* difference to the previous cumulative flow in percent of it.
C24_CumulativePerFund ==
    (an_pc = "done" /\ an_kind = "balance_evolution" /\ an_result.result.success) =>
        LET E == EvolutionData
        IN  /\ Len(E) = Len(an_df)
            /\ \A r \in 1..Len(an_df) :
                    Cardinality({i \in 1..Len(E) :
                        /\ E[i].date = an_df[r].date /\ E[i].nmfundo = an_df[r].nmfundo
                        /\ E[i].fonte = an_df[r].fonte
                        /\ E[i].daily_net_flow = an_df[r].daily_net_flow}) = 1
            /\ \A i \in 1..Len(E) :
                /\ \A j \in Before(E, i) : E[j].date <= E[i].date
                /\ E[i].cumulative_flow = FlowOver(E, UpTo(E, i))
                /\ Before(E, i) = {} => E[i].pct_change.num = 0
                /\ Before(E, i) # {} =>
                    LET prev == FlowOver(E, Before(E, i))
                    IN  IF prev = 0 THEN E[i].pct_change.num = 0
                        ELSE /\ E[i].pct_change.den # 0
                             /\ E[i].pct_change.num * prev
                                    = (E[i].cumulative_flow - prev) * 100 * E[i].pct_change.den

\* One fund held at two custodians on day 1 (-10 and 10) and with 30 on day
\* 2: the cumulative flows are -10, 0 and 30, and the change of the last row,
\* from 0, is reported as 0.
C24_Witness ==
    /\ an_pc = "done"
    /\ an_kind = "balance_evolution"
    /\ an_result.result.success
    /\ Len(EvolutionData) = 3
    /\ \A i \in 1..3 : EvolutionData[i].nmfundo = "FUNDO A"
    /\ EvolutionData[1].cumulative_flow = -10
    /\ EvolutionData[2].cumulative_flow = 0
    /\ EvolutionData[2].pct_change.num # 0
    /\ EvolutionData[3].cumulative_flow = 30
    /\ EvolutionData[3].pct_change.num = 0

(***************************************************************************)
(* C25.  The authorized domains of Microsoft accounts.                     *)
(***************************************************************************)
\* A domain as written in AUTHORIZED_DOMAINS, without the blanks around it.
Stripped(piece) == IF piece = " other.com" THEN "other.com" ELSE piece

\* The domains a value of AUTHORIZED_DOMAINS names.
ConfiguredDomains(env) ==
    IF env = None THEN {}
    ELSE {Stripped(env[1][i]) : i \in {j \in 1..Len(env[1]) : env[1][j] # ","}}

MicrosoftKeys == {"microsoft_user", "microsoft_user_info", "auth_provider"}

\* C25: a run that handled the Graph answer of an account whose domain is not
\* among the configured ones logged no Microsoft user in: authenticate_microsoft
\* returned none, no Microsoft key is in the session, and the session is
\* authenticated only if the login form was answered in the same run; with no
\* domain configured the account is logged in whatever its domain.
C25_AuthorizedDomains ==
    ss_ms_attempt # None =>
        LET user_info == ss_ms_attempt[1].user_info
            configured == ConfiguredDomains(ss_ms_attempt[1].env)
        IN  /\ (configured # {} /\ user_info.domain \notin configured) =>
                /\ ss_keys.auth \cap MicrosoftKeys = {}
                /\ ss_auth_result # None => ss_auth_result[1].provider # "microsoft"
                /\ ss_state.authenticated =>
                        /\ ss_auth_result # None
                        /\ ss_state.current_user = ss_auth_result
            /\ configured = {} =>
                /\ ss_state.authenticated
                /\ ss_auth_result # None
                /\ ss_auth_result[1].provider = "microsoft"
                /\ ss_auth_result[1].username = user_info.userPrincipalName
                /\ ss_state.current_user = ss_auth_result
                /\ MicrosoftKeys \subseteq ss_keys.auth

\* carlos@other.com answered the Microsoft login while AUTHORIZED_DOMAINS is
\* 'corp.com': the session is still on the login page with nothing saved.
C25_Witness ==
    /\ ss_ms_attempt # None
    /\ ss_ms_attempt[1].env = Some(<<"corp.com">>)
    /\ ss_ms_attempt[1].user_info.userPrincipalName = "carlos@other.com"
    /\ ~ss_state.authenticated
    /\ ss_state.current_user = None
    /\ ss_auth_result = None
    /\ ss_keys.auth = {}
    /\ run(ss_state) = "login"

====
